---- MODULE Spec2Model ----
(***************************************************************************)
(* Model of the resource-lifecycle reconciliation logic of                 *)
(* core_organization (scp.py, units.py, response.py): one CloudFormation   *)
(* custom-resource request is handled, synchronously, against a remote     *)
(* AWS Organizations control plane whose calls may fail.                   *)
(*                                                                         *)
(* An exception is modelled by the kind named in its text; "" is no        *)
(* exception (and Python's None / empty string for identifiers).           *)
(***************************************************************************)
EXTENDS Integers, Sequences, FiniteSets, TLC

\* ------------------------------------------------------------------------
\* Program constants
\* ------------------------------------------------------------------------
MAX_RETRY_ATTEMPTS == 10

DEFAULT_FULL_ACCESS_POLICY_ID == "p-FullAWSAccess"

retryable_errors ==
    { "ConcurrentModificationException", "PolicyInUseException",
      "TooManyRequestsException", "ServiceException", "ThrottlingException" }

move_retryable_errors ==
    { "PolicyInUseException", "ConcurrentModificationException" }

MIN_RETRY_DELAY == 5

MAX_RETRY_DELAY == 30

CHILD_MOVE_MIN_DELAY == 5

CHILD_MOVE_MAX_DELAY == 20

\* ------------------------------------------------------------------------
\* Bounds of the model
\* ------------------------------------------------------------------------
\* longest Children list of a request
MaxChildren == 2

\* number of member accounts of the organization
NumAccounts == 2

\* longest Statement list of a policy document
MaxStatements == 2

\* ------------------------------------------------------------------------
\* Identifiers: the strings of the model and their characters
\* ------------------------------------------------------------------------
R1   == "r-ab12"
R2   == "r-cd34"
A1   == "111111111111"
A2   == "222222222222"
A3   == "333333333333"
OU1  == "ou-ab12-cdefgh12"
NEWOU == "ou-ab12-newou001"
P1   == "p-aaaa"
P2   == "p-bbbb"
NEWP == "p-newp0001"
BadChild == "12345"
\* twelve digits and a line feed
LineFedChild == "111111111111\n"
Bogus == "bogus"
FailedId == "Failed/Create"
LogicalId == "Res1"
AttId == "SCPAttachment-Res1"

Rep(c, n) == [i \in 1..n |-> c]

\* the characters of every string the model passes through an id check
Chars ==
    [ s \in { "", "root", "ROOT", "Root", R1, R2, A1, A2, A3, OU1, NEWOU, P1, P2, NEWP,
              DEFAULT_FULL_ACCESS_POLICY_ID, BadChild, LineFedChild, Bogus,
              FailedId,
              LogicalId, AttId, " ", "Sandbox", "Failed/" } |->
        CASE s = ""      -> << >>
          [] s = "root"  -> <<"r","o","o","t">>
          [] s = "ROOT"  -> <<"R","O","O","T">>
          [] s = "Root"  -> <<"R","o","o","t">>
          [] s = R1      -> <<"r","-","a","b","1","2">>
          [] s = R2      -> <<"r","-","c","d","3","4">>
          [] s = A1      -> Rep("1", 12)
          [] s = A2      -> Rep("2", 12)
          [] s = A3      -> Rep("3", 12)
          [] s = OU1     -> <<"o","u","-","a","b","1","2","-">> \o
                            <<"c","d","e","f","g","h","1","2">>
          [] s = NEWOU   -> <<"o","u","-","a","b","1","2","-">> \o
                            <<"n","e","w","o","u","0","0","1">>
          [] s = P1      -> <<"p","-","a","a","a","a">>
          [] s = P2      -> <<"p","-","b","b","b","b">>
          [] s = NEWP    -> <<"p","-","n","e","w","p","0","0","0","1">>
          [] s = DEFAULT_FULL_ACCESS_POLICY_ID ->
                            <<"p","-","F","u","l","l","A","W","S">> \o
                            <<"A","c","c","e","s","s">>
          [] s = BadChild -> <<"1","2","3","4","5">>
          [] s = LineFedChild -> Rep("1", 12) \o <<"\n">>
          [] s = Bogus   -> <<"b","o","g","u","s">>
          [] s = FailedId -> <<"F","a","i","l","e","d","/">> \o
                            <<"C","r","e","a","t","e">>
          [] s = LogicalId -> <<"R","e","s","1">>
          [] s = AttId   -> <<"S","C","P","A","t","t","a","c","h","m","e">> \o
                            <<"n","t","-","R","e","s","1">>
          [] s = " "     -> <<" ">>
          [] s = "Failed/" -> <<"F","a","i","l","e","d","/">>
          [] s = "Sandbox" -> <<"S","a","n","d","b","o","x">> ]

Digits == {"0","1","2","3","4","5","6","7","8","9"}

LowerAlnum ==
    Digits \cup {"a","b","c","d","e","f","g","h","i","j","k","l","m","n","o",
                 "p","q","r","s","t","u","v","w","x","y","z"}

\* [0-9a-z]{lo,hi} over the whole of cs
AlnumRun(cs, lo, hi) ==
    /\ Len(cs) >= lo
    /\ Len(cs) <= hi
    /\ \A i \in 1..Len(cs) : cs[i] \in LowerAlnum

\* a comparison that accepts only the prefix itself
equals_prefix(s, prefix) == s = prefix

\* str.startswith
startswith(s, prefix) ==
    /\ Len(Chars[s]) >= Len(Chars[prefix])
    /\ SubSeq(Chars[s], 1, Len(Chars[prefix])) = Chars[prefix]

\* one character of str.lower()
LowerChar(c) ==
    CASE c = "R" -> "r" [] c = "O" -> "o" [] c = "T" -> "t" [] c = "F" -> "f"
      [] c = "A" -> "a" [] c = "W" -> "w" [] c = "S" -> "s" [] c = "C" -> "c"
      [] OTHER -> c

\* an alias test that takes the lower-case spelling only
is_root_exactly(s) == s = "root"

\* target_id.lower() == "root"
IsRootAlias(s) ==
    [i \in 1..Len(Chars[s]) |-> LowerChar(Chars[s][i])] = Chars["root"]

\* the "$" of a pattern compiled without re.MULTILINE matches at the end of
\* the string and before a line feed that ends the string: the texts that
\* the part of the pattern before "$" may have to cover
before_dollar(cs) ==
    {cs} \cup (IF Len(cs) > 0 /\ cs[Len(cs)] = "\n"
               THEN {SubSeq(cs, 1, Len(cs) - 1)} ELSE {})

\* ^r-[0-9a-z]{4,32}$
ROOT_ID_PATTERN(s) ==
    \E cs \in before_dollar(Chars[s]) :
    /\ Len(cs) >= 2
    /\ cs[1] = "r"
    /\ cs[2] = "-"
    /\ AlnumRun(SubSeq(cs, 3, Len(cs)), 4, 32)

\* ^[0-9]{12}$
ACCOUNT_ID_PATTERN(s) ==
    \E cs \in before_dollar(Chars[s]) :
    /\ Len(cs) = 12
    /\ \A i \in 1..12 : cs[i] \in Digits

\* ^ou-[0-9a-z]{4,32}-[0-9a-z]{8,32}$
OU_ID_PATTERN(s) ==
    \E cs \in before_dollar(Chars[s]) :
    /\ Len(cs) >= 3
    /\ SubSeq(cs, 1, 3) = <<"o","u","-">>
    /\ \E k \in 4..Len(cs) :
          /\ cs[k] = "-"
          /\ AlnumRun(SubSeq(cs, 4, k - 1), 4, 32)
          /\ AlnumRun(SubSeq(cs, k + 1, Len(cs)), 8, 32)

\* ^p-[0-9a-z]{4,32}$
POLICY_ID_PATTERN(s) ==
    \E cs \in before_dollar(Chars[s]) :
    /\ Len(cs) >= 2
    /\ cs[1] = "p"
    /\ cs[2] = "-"
    /\ AlnumRun(SubSeq(cs, 3, Len(cs)), 4, 32)

\* str.strip() of the names the model uses (only " " has white space)
strip(s) == IF s = " " THEN "" ELSE s

validate_account_id(account_id) == ACCOUNT_ID_PATTERN(account_id)

validate_ou_id(ou_id) == OU_ID_PATTERN(ou_id)

\* ------------------------------------------------------------------------
\* State
\* ------------------------------------------------------------------------
VARIABLES
    event,      \* the CloudFormation request being handled
    org,        \* the remote organization: roots, policies, attachments, OUs
    org0,       \* the remote organization as the request found it
    fn,         \* the manager function the dispatcher selected ("" before)
    pc,         \* the position inside that function
    loc,        \* its local variables
    retry,      \* the retry loop of the remote call in progress (or last run)
    calls,      \* every remote call issued, in order
    responses,  \* every outcome notification sent, in order
    peer        \* a second, concurrent invocation while it is not the one
                \* taking a step: its fn, pc, loc and retry

vars == <<event, org, org0, fn, pc, loc, retry, calls, responses, peer>>

\* ------------------------------------------------------------------------
\* The remote organization (the Retryable Remote Client's far side)
\* ------------------------------------------------------------------------
NoVal == << >>

Ok(v) == [err |-> "", val |-> v]

Err(kind) == [err |-> kind, val |-> NoVal]

Call(api, a, b, c) == [api |-> api, a |-> a, b |-> b, c |-> c]

\* the entry of call c in the record of calls: res is "ok"; for a call made
\* outside the engines, the kind of the exception it raised; for an attempt
\* of an engine, "retry" (failed, retried) or "raised" (failed, given up:
\* the kind is retry.last_exception)
Logged(c, res) == [api |-> c.api, a |-> c.a, b |-> c.b, c |-> c.c, res |-> res]

\* the entry of a call made outside the engines that got answer out
Answered(c, out) == Logged(c, IF out.err = "" THEN "ok" ELSE out.err)

\* a set of identifiers as a list, in the remote's fixed listing order
ListingOrder == <<R1, A1, A2, A3, OU1, NEWOU>>

RECURSIVE ListOf(_, _)
ListOf(S, i) ==
    IF i > Len(ListingOrder) THEN << >>
    ELSE (IF ListingOrder[i] \in S THEN <<ListingOrder[i]>> ELSE << >>)
         \o ListOf(S, i + 1)

Accounts(o) == DOMAIN o.parentOf

OuIds(o) == { u.Id : u \in o.ous }

RootIds(o) == { o.roots[i] : i \in 1..Len(o.roots) }

Containers(o) == RootIds(o) \cup OuIds(o)

TargetsOf(o, p) == { pr[2] : pr \in { q \in o.attached : q[1] = p } }

PoliciesOn(o, t) == { pr[1] : pr \in { q \in o.attached : q[2] = t } }

ChildAccounts(o, parent) == { a \in Accounts(o) : o.parentOf[a] = parent }

Arn(id) == <<"arn", id>>

\* what the remote answers to a call when it does not fail transiently
RemoteResult(o, c) ==
    CASE c.api = "list_roots" -> Ok(o.roots)
      [] c.api = "describe_account" ->
            IF c.a \in Accounts(o) THEN Ok(<<c.a>>)
            ELSE Err("AccountNotFoundException")
      [] c.api = "describe_organizational_unit" ->
            IF c.a \in OuIds(o) THEN Ok(<<c.a>>)
            ELSE Err("OrganizationalUnitNotFoundException")
      [] c.api = "list_targets_for_policy" ->
            IF c.a \in o.policies THEN Ok(ListOf(TargetsOf(o, c.a), 1))
            ELSE Err("PolicyNotFoundException")
      [] c.api = "attach_policy" ->
            IF c.a \notin o.policies THEN Err("PolicyNotFoundException")
            ELSE IF c.b \notin Containers(o) \cup Accounts(o)
                 THEN Err("TargetNotFoundException")
            ELSE IF <<c.a, c.b>> \in o.attached
                 THEN Err("DuplicatePolicyAttachmentException")
            ELSE Ok(NoVal)
      [] c.api = "detach_policy" ->
            IF c.a \notin o.policies THEN Err("PolicyNotFoundException")
            ELSE IF <<c.a, c.b>> \notin o.attached
                 THEN Err("PolicyNotAttachedException")
            ELSE IF PoliciesOn(o, c.b) = {c.a}
                 THEN Err("ConstraintViolationException")
            ELSE Ok(NoVal)
      [] c.api = "create_policy" ->
            IF \E pr \in o.names : pr[2] = c.a
            THEN Err("DuplicatePolicyException")
            ELSE Ok(<<NEWP>>)
      [] c.api = "update_policy" ->
            IF c.a \notin o.policies THEN Err("PolicyNotFoundException")
            ELSE IF \E pr \in o.names : pr[1] # c.a /\ pr[2] = c.b
                 THEN Err("DuplicatePolicyException")
            ELSE Ok(<<c.a>>)
      [] c.api = "delete_policy" ->
            IF c.a \notin o.policies THEN Err("PolicyNotFoundException")
            ELSE IF TargetsOf(o, c.a) # {} THEN Err("PolicyInUseException")
            ELSE Ok(NoVal)
      [] c.api = "create_organizational_unit" ->
            IF c.a \notin Containers(o) THEN Err("ParentNotFoundException")
            ELSE IF \E u \in o.ous : u.ParentId = c.a /\ u.Name = c.b
                 THEN Err("DuplicateOrganizationalUnitException")
            ELSE Ok(<<NEWOU>>)
      [] c.api = "update_organizational_unit" ->
            IF c.a \notin OuIds(o)
            THEN Err("OrganizationalUnitNotFoundException")
            ELSE IF \E u \in o.ous, v \in o.ous :
                       /\ u.Id = c.a /\ v.Id # c.a
                       /\ v.ParentId = u.ParentId /\ v.Name = c.b
                 THEN Err("DuplicateOrganizationalUnitException")
            ELSE Ok(<<c.a>>)
      [] c.api = "delete_organizational_unit" ->
            IF c.a \notin OuIds(o)
            THEN Err("OrganizationalUnitNotFoundException")
            ELSE IF \/ ChildAccounts(o, c.a) # {}
                    \/ \E u \in o.ous : u.ParentId = c.a
                 THEN Err("OrganizationalUnitNotEmptyException")
            ELSE Ok(NoVal)
      [] c.api = "list_children" ->
            IF c.a \notin Containers(o) THEN Err("ParentNotFoundException")
            ELSE Ok(ListOf(ChildAccounts(o, c.a), 1))
      [] c.api = "list_parents" ->
            IF c.a \notin Accounts(o) THEN Err("ChildNotFoundException")
            ELSE Ok(<<o.parentOf[c.a]>>)
      [] c.api = "move_account" ->
            IF c.a \notin Accounts(o) THEN Err("AccountNotFoundException")
            ELSE IF o.parentOf[c.a] # c.b
                 THEN Err("SourceParentNotFoundException")
            ELSE IF c.c \notin Containers(o)
                 THEN Err("DestinationParentNotFoundException")
            ELSE IF c.c = c.b THEN Err("DuplicateAccountException")
            ELSE Ok(NoVal)

\* the remote organization after call c has succeeded
RemoteEffect(o, c) ==
    CASE c.api = "attach_policy" ->
            [o EXCEPT !.attached = @ \cup {<<c.a, c.b>>}]
      [] c.api = "detach_policy" ->
            [o EXCEPT !.attached = @ \ {<<c.a, c.b>>}]
      [] c.api = "create_policy" ->
            [o EXCEPT !.policies = @ \cup {NEWP},
                      !.names = @ \cup {<<NEWP, c.a>>}]
      [] c.api = "update_policy" ->
            [o EXCEPT !.names = { pr \in @ : pr[1] # c.a } \cup {<<c.a, c.b>>}]
      [] c.api = "delete_policy" ->
            [o EXCEPT !.policies = @ \ {c.a},
                      !.names = { pr \in @ : pr[1] # c.a }]
      [] c.api = "create_organizational_unit" ->
            [o EXCEPT !.ous = @ \cup
                {[Id |-> NEWOU, Name |-> c.b, ParentId |-> c.a]}]
      [] c.api = "update_organizational_unit" ->
            [o EXCEPT !.ous = { IF u.Id = c.a THEN [u EXCEPT !.Name = c.b] ELSE u :
                                  u \in @ }]
      [] c.api = "delete_organizational_unit" ->
            [o EXCEPT !.ous = { u \in @ : u.Id # c.a }]
      [] c.api = "move_account" ->
            [o EXCEPT !.parentOf[c.a] = c.c]
      [] OTHER -> o

\* the transient and permission failures any remote call may raise
Faults == retryable_errors \cup {"AccessDeniedException"}

\* every answer one remote call can get: what the remote's state dictates
\* and, unless the scenario is one of a remote without failures of its own,
\* every fault
CallOutcomes(o, c) ==
    {RemoteResult(o, c)} \cup (IF o.faulty THEN { Err(f) : f \in Faults } ELSE {})

\* the failures injected into the calls made outside the engines, where the
\* kind decides nothing: one transient kind and one permission failure
ReadFaults == {"ThrottlingException", "AccessDeniedException"}

\* every answer a call made outside the engines can get
ReadOutcomes(o, c) ==
    {RemoteResult(o, c)}
    \cup (IF o.faulty THEN { Err(f) : f \in ReadFaults } ELSE {})

Elems(seq) == { seq[i] : i \in 1..Len(seq) }

\* ------------------------------------------------------------------------
\* Outcome notifications (response.py)
\* ------------------------------------------------------------------------
NoData == [Id |-> "", Arn |-> NoVal, PolicyId |-> "", TargetId |-> ""]

\* response URLs: one whose PUT always gets through, one whose PUT may fail;
\* "" stands for an event without the ResponseURL key
Reachable == "https://cfn/reachable"
Unstable == "https://cfn/unstable"

\* what becomes of the body inside send_response: a missing required field
\* raises KeyError before anything is sent, and _send_http_response may raise
\* URLError; send_response catches both and does not re-raise
PutOutcomes ==
    IF event.ResponseURL = "" THEN {"KeyError"}
    ELSE IF event.ResponseURL = Reachable THEN {"sent"}
    ELSE {"sent", "URLError"}

\* the body send_response builds for the wire; Put is filled in by Notify
send_response(response_status, response_data, physical_resource_id, reason, e) ==
    [ Status |-> response_status,
      PhysicalResourceId |-> physical_resource_id,
      Data |-> response_data,
      Reason |-> reason,
      Error |-> e,
      Put |-> "" ]

\* one call of send_response with its transport
Notify(body) ==
    \E put \in PutOutcomes :
        responses' = Append(responses, [body EXCEPT !.Put = put])

send_success_response(response_data, physical_resource_id) ==
    send_response("SUCCESS", response_data,
                  IF physical_resource_id # "" THEN physical_resource_id
                  ELSE event.LogicalResourceId,
                  "", "")

send_failure_response(reason, e, physical_resource_id) ==
    send_response("FAILED", NoData, physical_resource_id, reason, e)

\* ------------------------------------------------------------------------
\* The top-level except clauses of the manager functions
\* ------------------------------------------------------------------------
CreateFns ==
    { "create_service_control_policy", "create_service_control_policy_attachment",
      "create_organizational_unit" }

\* functions whose only clause is "except Exception"
NoValueErrorClause ==
    { "delete_service_control_policy", "delete_organizational_unit" }

\* an except clause that reports a success
except_reports_success(f, e) == send_success_response(NoData, "")

\* an except clause that passes no identifier on
except_without_id(f, e) ==
    send_failure_response(
        IF e = "ValueError" /\ f \notin NoValueErrorClause
        THEN "Validation error" ELSE "Failed",
        e, "")

\* the failure outcome function f sends for exception e
ExceptClause(f, e) ==
    send_failure_response(
        IF e = "ValueError" /\ f \notin NoValueErrorClause
        THEN "Validation error" ELSE "Failed",
        e,
        IF f \in CreateFns THEN "" ELSE event.PhysicalResourceId)

\* exception e reaches the function's top-level try
Fail(e) ==
    /\ Notify(ExceptClause(fn, e))
    /\ pc' = "done"

Succeed(response_data, physical_resource_id) ==
    /\ Notify(send_success_response(response_data, physical_resource_id))
    /\ pc' = "done"

\* ------------------------------------------------------------------------
\* Retry Engine (scp.retry_with_backoff, units.retry_with_backoff,
\* units.move_account_with_retry)
\* ------------------------------------------------------------------------
NoCall == Call("", "", "", "")

NoRetry ==
    [ engine |-> "", call |-> NoCall, attempt |-> 0, ncalls |-> 0,
      sleeps |-> 0, delay |-> 0, last_exception |-> "", status |-> "idle",
      raised |-> "", result |-> NoVal, ret |-> "", onraise |-> "",
      first |-> 0 ]

\* a manager function hands call c to an engine; it resumes at ret when the
\* engine returns and at onraise ("top": its top-level try) when it raises
StartRetry(engine, c, ret, onraise) ==
    /\ retry' = [NoRetry EXCEPT !.engine = engine, !.call = c,
                                !.status = "running", !.ret = ret,
                                !.onraise = onraise]
    /\ pc' = engine

\* a classification under which every error is retried
always_retryable(error_msg) == TRUE

is_retryable(error_msg) == error_msg \in retryable_errors

\* a loop that runs one iteration more than "range(MAX_RETRY_ATTEMPTS)"
will_retry_once_more(attempt, error_msg) ==
    is_retryable(error_msg) /\ attempt < MAX_RETRY_ATTEMPTS

will_retry(attempt, error_msg) ==
    is_retryable(error_msg) /\ (attempt + 1) < MAX_RETRY_ATTEMPTS

move_is_retryable(error_msg) == error_msg \in move_retryable_errors

\* a move loop that runs one iteration more than "range(MAX_RETRY_ATTEMPTS)"
move_will_retry_once_more(attempt, error_msg) ==
    move_is_retryable(error_msg) /\ attempt < MAX_RETRY_ATTEMPTS

\* "if not is_retryable or attempt == MAX_RETRY_ATTEMPTS - 1: raise"
move_will_retry(attempt, error_msg) ==
    ~(~move_is_retryable(error_msg) \/ attempt = MAX_RETRY_ATTEMPTS - 1)

\* an engine that raises a tagged error of its own when it gives up
raise_tagged(e) == "RetryExhaustedError"

\* the exception the engine raises when its loop gives up on error e
raise_last_exception(e) == e

\* random.randint(a, b): an integer of a..b, of which the model draws the
\* two ends
randint(a, b) == { d \in a..b : d \in {a, b} }

\* a loop that sleeps before its first attempt as well
sleeps_before_every(attempt) == TRUE

\* "if attempt > 0": the iteration begins with a sleep
sleeps_before(attempt) == attempt > 0

\* the delays an iteration may sleep for: 0 stands for no sleep
Delays(attempt, lo, hi) ==
    IF sleeps_before(attempt) THEN randint(lo, hi) ELSE {0}

\* one iteration of an engine's "for attempt in range(MAX_RETRY_ATTEMPTS)"
Attempt(again(_, _), lo, hi) ==
    \E out \in CallOutcomes(org, retry.call),
       delay \in Delays(retry.attempt, lo, hi) :
        LET r1 == [retry EXCEPT !.ncalls = @ + 1,
                                !.sleeps = @ + (IF delay > 0 THEN 1 ELSE 0),
                                !.delay = delay,
                                !.first = IF retry.ncalls = 0 THEN Len(calls) ELSE @]
        IN  /\ calls' = Append(calls,
                    Logged(retry.call,
                           IF out.err = "" THEN "ok"
                           ELSE IF again(retry.attempt, out.err) THEN "retry"
                           ELSE "raised"))
            /\ IF out.err = ""
               THEN /\ org' = RemoteEffect(org, retry.call)
                    /\ retry' = [r1 EXCEPT !.status = "returned",
                                           !.result = out.val]
                    /\ pc' = retry.ret
                    /\ UNCHANGED responses
               ELSE /\ org' = org
                    /\ IF again(retry.attempt, out.err)
                       THEN /\ retry' = [r1 EXCEPT !.attempt = @ + 1,
                                                   !.last_exception = out.err]
                            /\ UNCHANGED <<pc, responses>>
                       ELSE /\ retry' = [r1 EXCEPT
                                            !.last_exception = out.err,
                                            !.status = "raised",
                                            !.raised = raise_last_exception(out.err)]
                            /\ IF retry.onraise = "top"
                               THEN Fail(raise_last_exception(out.err))
                               ELSE /\ pc' = retry.onraise
                                    /\ UNCHANGED responses

retry_with_backoff ==
    /\ pc = "retry_with_backoff"
    /\ Attempt(will_retry, MIN_RETRY_DELAY, MAX_RETRY_DELAY)
    /\ UNCHANGED <<peer, event, org0, fn, loc>>

move_account_with_retry ==
    /\ pc = "move_account_with_retry"
    /\ Attempt(move_will_retry, CHILD_MOVE_MIN_DELAY, CHILD_MOVE_MAX_DELAY)
    /\ UNCHANGED <<peer, event, org0, fn, loc>>

\* ------------------------------------------------------------------------
\* Target Resolver (scp.validate_target_id)
\* ------------------------------------------------------------------------
NoLoc ==
    [ arg |-> "", target |-> "", old_target |-> "", ou_id |-> "",
      ou_arn |-> NoVal,
      root_id |-> "", children |-> NoVal, i |-> 0 ]

\* no second invocation
NoPeer == [fn |-> "", pc |-> "none", loc |-> NoLoc, retry |-> NoRetry]

\* where a manager function goes on once its target is resolved
AfterTarget(f) ==
    IF f = "update_service_control_policy_attachment"
    THEN "update_target_resolved" ELSE "check_attached"

\* a resolver that lets the remote's own error through
failure_passed_through(out) == IF out.err = "" THEN "ValueError" ELSE out.err

\* what the resolver raises when its read answered out and no id came of it:
\* "raise ValueError(...)" for an absent target as for every other exception
resolution_failure(out) == "ValueError"

\* one remote read of the resolver: answer out decides between the resolved
\* id and the ValueError every failure is turned into
ResolveBy(c, found(_), id(_)) ==
    \E out \in ReadOutcomes(org, c) :
        /\ calls' = Append(calls, Answered(c, out))
        /\ IF out.err = "" /\ found(out.val)
           THEN /\ loc' = [loc EXCEPT !.target = id(out.val)]
                /\ pc' = AfterTarget(fn)
                /\ UNCHANGED responses
           ELSE /\ Fail(resolution_failure(out))
                /\ UNCHANGED loc

validate_target_id ==
    /\ pc = "validate_target_id"
    /\ LET target_id == loc.arg
           NonEmpty(v) == v # << >>
           First(v) == v[1]
           Listed(v) == target_id \in Elems(v)
           Exists(v) == TRUE
           Same(v) == target_id
       IN  IF target_id = ""
           THEN Fail("ValueError") /\ UNCHANGED <<loc, calls>>
           ELSE IF IsRootAlias(target_id)
           THEN ResolveBy(Call("list_roots", "", "", ""), NonEmpty, First)
           ELSE IF ROOT_ID_PATTERN(target_id)
           THEN ResolveBy(Call("list_roots", "", "", ""), Listed, Same)
           ELSE IF ACCOUNT_ID_PATTERN(target_id)
           THEN ResolveBy(Call("describe_account", target_id, "", ""), Exists, Same)
           ELSE IF OU_ID_PATTERN(target_id)
           THEN ResolveBy(Call("describe_organizational_unit", target_id, "", ""),
                          Exists, Same)
           ELSE Fail("ValueError") /\ UNCHANGED <<loc, calls>>
    /\ UNCHANGED <<peer, event, org0, org, fn, retry>>

\* ------------------------------------------------------------------------
\* Attachment Lifecycle Manager (scp.py)
\* ------------------------------------------------------------------------
get_policy_attachments(policy_id) ==
    Call("list_targets_for_policy", policy_id, "", "")

\* an attached check that takes every relation for attached
assume_attached(out, target_id) == TRUE

\* the answer of is_policy_attached_to_target when the listing answers out:
\* a listing that raises counts as "not attached"
is_policy_attached_to_target(out, target_id) ==
    IF out.err = "" THEN target_id \in Elems(out.val) ELSE FALSE

\* f"SCPAttachment-{LogicalResourceId}"
AttachmentIdOf(logical) == IF logical = LogicalId THEN AttId ELSE Bogus

create_service_control_policy_attachment ==
    /\ pc = "start"
    /\ fn = "create_service_control_policy_attachment"
    /\ IF \/ event.PolicyId = ""
          \/ event.TargetId = ""
          \/ ~POLICY_ID_PATTERN(event.PolicyId)
       THEN Fail("ValueError") /\ UNCHANGED loc
       ELSE /\ loc' = [loc EXCEPT !.arg = event.TargetId]
            /\ pc' = "validate_target_id"
            /\ UNCHANGED responses
    /\ UNCHANGED <<peer, event, org0, org, fn, retry, calls>>

create_attachment_check ==
    /\ pc = "check_attached"
    /\ fn = "create_service_control_policy_attachment"
    /\ \E out \in ReadOutcomes(org, get_policy_attachments(event.PolicyId)) :
        /\ calls' = Append(calls,
              Answered(get_policy_attachments(event.PolicyId), out))
        /\ IF is_policy_attached_to_target(out, loc.target)
           THEN /\ Succeed([NoData EXCEPT !.PolicyId = event.PolicyId,
                                          !.TargetId = loc.target],
                           AttachmentIdOf(event.LogicalResourceId))
                /\ UNCHANGED retry
           ELSE /\ StartRetry("retry_with_backoff",
                              Call("attach_policy", event.PolicyId, loc.target, ""),
                              "attached", "top")
                /\ UNCHANGED responses
    /\ UNCHANGED <<peer, event, org0, org, fn, loc>>

create_attachment_done ==
    /\ pc = "attached"
    /\ fn = "create_service_control_policy_attachment"
    /\ Succeed([NoData EXCEPT !.PolicyId = event.PolicyId,
                              !.TargetId = loc.target],
               AttachmentIdOf(event.LogicalResourceId))
    /\ UNCHANGED <<peer, event, org0, org, fn, loc, retry, calls>>

delete_service_control_policy_attachment ==
    /\ pc = "start"
    /\ fn = "delete_service_control_policy_attachment"
    /\ IF \/ event.PhysicalResourceId = ""
          \/ startswith(event.PhysicalResourceId, "Failed/")
       THEN Succeed(NoData, event.PhysicalResourceId) /\ UNCHANGED loc
       ELSE IF event.PolicyId = "" \/ event.TargetId = ""
       THEN Fail("ValueError") /\ UNCHANGED loc
       ELSE /\ loc' = [loc EXCEPT !.arg = event.TargetId]
            /\ pc' = "validate_target_id"
            /\ UNCHANGED responses
    /\ UNCHANGED <<peer, event, org0, org, fn, retry, calls>>

delete_attachment_check ==
    /\ pc = "check_attached"
    /\ fn = "delete_service_control_policy_attachment"
    /\ \E out \in ReadOutcomes(org, get_policy_attachments(event.PolicyId)) :
        /\ calls' = Append(calls,
              Answered(get_policy_attachments(event.PolicyId), out))
        /\ IF ~is_policy_attached_to_target(out, loc.target)
           THEN Succeed([NoData EXCEPT !.PolicyId = event.PolicyId,
                                       !.TargetId = loc.target],
                        event.PhysicalResourceId)
           ELSE pc' = "count_attachments" /\ UNCHANGED responses
    /\ UNCHANGED <<peer, event, org0, org, fn, loc, retry>>

\* "if len(attachments) <= 1": the policy's targets are counted
\* a count check that never finds a last attachment among listed ones
is_last_attachment_of_none(attachments) == Len(attachments) < 1

is_last_attachment(attachments) == Len(attachments) <= 1

delete_attachment_count ==
    /\ pc = "count_attachments"
    /\ \E out \in ReadOutcomes(org, get_policy_attachments(event.PolicyId)) :
        /\ calls' = Append(calls,
              Answered(get_policy_attachments(event.PolicyId), out))
        /\ pc' = IF out.err = "" /\ is_last_attachment(out.val)
                 THEN "handle_default_policy_attachment"
                 ELSE "detach"
    /\ UNCHANGED <<peer, event, org0, org, fn, loc, retry, responses>>

\* a delete to which a failed attach of the default policy is fatal
default_attach_failure_is_fatal == "top"

\* "Don't raise - this is a best-effort operation": where Attachment Delete
\* goes on when the attach of the default policy raises
after_failed_default_attach == "detach"

handle_default_policy_attachment ==
    /\ pc = "handle_default_policy_attachment"
    /\ \E out \in ReadOutcomes(org,
                      get_policy_attachments(DEFAULT_FULL_ACCESS_POLICY_ID)) :
        /\ calls' = Append(calls,
              Answered(get_policy_attachments(DEFAULT_FULL_ACCESS_POLICY_ID), out))
        /\ IF is_policy_attached_to_target(out, loc.target)
           THEN pc' = "detach" /\ UNCHANGED retry
           ELSE StartRetry("retry_with_backoff",
                           Call("attach_policy", DEFAULT_FULL_ACCESS_POLICY_ID,
                                loc.target, ""),
                           "detach", after_failed_default_attach)
    /\ UNCHANGED <<peer, event, org0, org, fn, loc, responses>>

delete_attachment_detach ==
    /\ pc = "detach"
    /\ StartRetry("retry_with_backoff",
                  Call("detach_policy", event.PolicyId, loc.target, ""),
                  "detached", "top")
    /\ UNCHANGED <<peer, event, org0, org, fn, loc, calls, responses>>

delete_attachment_done ==
    /\ pc = "detached"
    /\ Succeed([NoData EXCEPT !.PolicyId = event.PolicyId,
                              !.TargetId = loc.target],
               event.PhysicalResourceId)
    /\ UNCHANGED <<peer, event, org0, org, fn, loc, retry, calls>>

\* the two relations of an Attachment Update
OldRelation == <<event.OldPolicyId, loc.old_target>>

NewRelation == <<event.PolicyId, loc.target>>

update_service_control_policy_attachment ==
    /\ pc = "start"
    /\ fn = "update_service_control_policy_attachment"
    /\ IF \/ event.PhysicalResourceId = ""
          \/ event.PolicyId = "" \/ event.TargetId = ""
          \/ event.OldPolicyId = "" \/ event.OldTargetId = ""
       THEN Fail("ValueError") /\ UNCHANGED loc
       ELSE /\ loc' = [loc EXCEPT !.arg = event.OldTargetId]
            /\ pc' = "validate_target_id"
            /\ UNCHANGED responses
    /\ UNCHANGED <<peer, event, org0, org, fn, retry, calls>>

\* resolved_old_target_id is bound, then resolved_new_target_id
update_attachment_resolved ==
    /\ pc = "update_target_resolved"
    /\ IF loc.old_target = ""
       THEN /\ loc' = [loc EXCEPT !.old_target = loc.target, !.target = "",
                                  !.arg = event.TargetId]
            /\ pc' = "validate_target_id"
       ELSE /\ pc' = "update_check_old"
            /\ UNCHANGED loc
    /\ UNCHANGED <<peer, event, org0, org, fn, retry, calls, responses>>

\* a detach aimed at the new relation
detach_new_policy == Call("detach_policy", event.PolicyId, loc.target, "")

detach_old_policy ==
    Call("detach_policy", event.OldPolicyId, loc.old_target, "")

attach_new_policy == Call("attach_policy", event.PolicyId, loc.target, "")

update_attachment_check_old ==
    /\ pc = "update_check_old"
    /\ \E out \in ReadOutcomes(org, get_policy_attachments(event.OldPolicyId)) :
        /\ calls' = Append(calls,
              Answered(get_policy_attachments(event.OldPolicyId), out))
        /\ IF is_policy_attached_to_target(out, loc.old_target)
           THEN StartRetry("retry_with_backoff", detach_old_policy,
                           "update_check_new", "top")
           ELSE /\ pc' = "update_check_new"
                /\ UNCHANGED retry
    /\ UNCHANGED <<peer, event, org0, org, fn, loc, responses>>

update_attachment_check_new ==
    /\ pc = "update_check_new"
    /\ \E out \in ReadOutcomes(org, get_policy_attachments(event.PolicyId)) :
        /\ calls' = Append(calls,
              Answered(get_policy_attachments(event.PolicyId), out))
        /\ IF ~is_policy_attached_to_target(out, loc.target)
           THEN StartRetry("retry_with_backoff", attach_new_policy,
                           "update_attached", "top")
           ELSE /\ pc' = "update_attached"
                /\ UNCHANGED retry
    /\ UNCHANGED <<peer, event, org0, org, fn, loc, responses>>

update_attachment_done ==
    /\ pc = "update_attached"
    /\ Succeed([NoData EXCEPT !.PolicyId = event.PolicyId,
                              !.TargetId = loc.target],
               event.PhysicalResourceId)
    /\ UNCHANGED <<peer, event, org0, org, fn, loc, retry, calls>>

\* the process stops where it is: nothing more is called or sent
crash ==
    /\ pc \notin {"idle", "done", "crashed"}
    /\ pc' = "crashed"
    /\ UNCHANGED <<peer, event, org0, org, fn, loc, retry, calls, responses>>

\* the other of two concurrent invocations takes the next step: each
\* invocation runs the handler on its own fn, pc, loc and retry, against the
\* one remote organization
switch ==
    /\ peer.pc \notin {"none", "done"}
    /\ peer' = [fn |-> fn, pc |-> pc, loc |-> loc, retry |-> retry]
    /\ fn' = peer.fn
    /\ pc' = peer.pc
    /\ loc' = peer.loc
    /\ retry' = peer.retry
    /\ UNCHANGED <<org0, event, org, calls, responses>>

\* the caller sends again a request whose handling met no failure and ended
\* in a success outcome; the remote state is what that handling left
resend ==
    /\ pc = "done"
    /\ Len(responses) = 1
    /\ responses[1].Status = "SUCCESS"
    /\ \A i \in 1..Len(calls) : calls[i].res = "ok"
    /\ pc' = "idle"
    /\ fn' = ""
    /\ loc' = NoLoc
    /\ retry' = NoRetry
    /\ UNCHANGED <<peer, event, org0, org, calls, responses>>

\* ------------------------------------------------------------------------
\* Policy documents (scp.validate_policy_document)
\* ------------------------------------------------------------------------
\* A document is an object with its keys in order; "Statement" holds a list
\* of statements or a single statement object; a statement is named by its
\* Effect, "none" being an object without Effect and "scalar" a value that
\* is not an object.  A text is a sequence of tokens.
StatementKinds == {"Allow", "Deny", "allow", "none", "scalar"}

NoStruct == [top |-> "", keys |-> << >>, kind |-> "", items |-> << >>]

SeqsUpTo(S, n) == UNION { [1..k -> S] : k \in 0..n }

StatementKeyOrders ==
    { <<"Statement">>, <<"Version", "Statement">>, <<"Statement", "Version">> }

Structs ==
    { [NoStruct EXCEPT !.top = "object", !.keys = ks] :
        ks \in { << >>, <<"Version">> } }
    \cup
    { [top |-> "object", keys |-> ks, kind |-> "list", items |-> it] :
        ks \in StatementKeyOrders, it \in SeqsUpTo(StatementKinds, MaxStatements) }
    \cup
    { [top |-> "object", keys |-> ks, kind |-> "object", items |-> <<e>>] :
        ks \in StatementKeyOrders, e \in {"Allow", "none"} }
    \cup
    { [NoStruct EXCEPT !.top = "array"] }

ItemTokens(e) ==
    CASE e = "scalar" -> <<"1">>
      [] e = "none"   -> <<"{", "}">>
      [] OTHER        -> <<"{", "Effect", ":", e, "}">>

RECURSIVE JoinItems(_)
JoinItems(items) ==
    IF items = << >> THEN << >>
    ELSE ItemTokens(Head(items))
         \o (IF Tail(items) = << >> THEN << >>
             ELSE <<",">> \o JoinItems(Tail(items)))

StatementTokens(d) ==
    IF d.kind = "list" THEN <<"[">> \o JoinItems(d.items) \o <<"]">>
    ELSE ItemTokens(d.items[1])

RECURSIVE JoinKeys(_, _)
JoinKeys(d, ks) ==
    IF ks = << >> THEN << >>
    ELSE (IF Head(ks) = "Version" THEN <<"Version", ":", "2012-10-17">>
          ELSE <<"Statement", ":">> \o StatementTokens(d))
         \o (IF Tail(ks) = << >> THEN << >>
             ELSE <<",">> \o JoinKeys(d, Tail(ks)))

\* json.dumps(policy_document, separators=(",", ":"))
json_dumps(d) ==
    IF d.top = "array" THEN <<"[", "]">>
    ELSE <<"{">> \o JoinKeys(d, d.keys) \o <<"}">>

\* the same text with a blank after every "," and ":"
RECURSIVE Spaced(_)
Spaced(text) ==
    IF text = << >> THEN << >>
    ELSE (IF Head(text) \in {",", ":"} THEN <<Head(text), " ">>
          ELSE <<Head(text)>>)
         \o Spaced(Tail(text))

\* a text cut off before its last token
Broken(text) == SubSeq(text, 1, Len(text) - 1)

IsToken(t) == t # " "

Unspaced(text) == SelectSeq(text, IsToken)

\* every document with the text it is written as
Written == { <<json_dumps(d), d>> : d \in Structs }

\* the documents a text is the serialized form of
Readings(text) ==
    LET tokens == Unspaced(text)
    IN  { w[2] : w \in { x \in Written : x[1] = tokens } }

\* json.loads(policy_document) does not raise JSONDecodeError
Parses(text) == Readings(text) # {}

\* json.loads(policy_document)
json_loads(text) == CHOOSE d \in Readings(text) : TRUE

NoDocument == [form |-> "none", struct |-> NoStruct, text |-> << >>]

Dict(d) == [form |-> "dict", struct |-> d, text |-> << >>]

Str(text) == [form |-> "str", struct |-> NoStruct, text |-> text]

\* a statement check that takes any Effect
any_effect(e) == TRUE

\* 'statement["Effect"] not in ["Allow", "Deny"]' does not raise
effect_is_valid(e) == e \in {"Allow", "Deny"}

\* a serializer that writes the parsed document again, whatever its form
reserialized(policy_document) ==
    IF policy_document.form = "str"
    THEN json_dumps(json_loads(policy_document.text))
    ELSE json_dumps(policy_document.struct)

\* "policy_json": a string is returned as it came, a dict is dumped
serialized(policy_document) ==
    IF policy_document.form = "str"
    THEN policy_document.text
    ELSE json_dumps(policy_document.struct)

validate_policy_document(policy_document) ==
    IF policy_document.form \notin {"dict", "str"} THEN Err("ValueError")
    ELSE IF policy_document.form = "str" /\ ~Parses(policy_document.text)
    THEN Err("ValueError")
    ELSE
      LET parsed == IF policy_document.form = "str"
                    THEN json_loads(policy_document.text)
                    ELSE policy_document.struct
          policy_json == serialized(policy_document)
      IN  IF parsed.top # "object" THEN Err("ValueError")
          ELSE IF "Version" \notin Elems(parsed.keys) THEN Err("ValueError")
          ELSE IF "Statement" \notin Elems(parsed.keys) THEN Err("ValueError")
          ELSE IF parsed.kind # "list" THEN Err("ValueError")
          ELSE IF Len(parsed.items) = 0 THEN Err("ValueError")
          ELSE IF \E i \in 1..Len(parsed.items) :
                     \/ parsed.items[i] = "scalar"
                     \/ parsed.items[i] = "none"
                     \/ ~effect_is_valid(parsed.items[i])
               THEN Err("ValueError")
          ELSE Ok(policy_json)

\* "if not policy_document"
document_missing(policy_document) ==
    \/ policy_document.form = "none"
    \/ policy_document.form = "dict" /\ policy_document.struct.keys = << >>
    \/ policy_document.form = "str" /\ policy_document.text = << >>

\* ------------------------------------------------------------------------
\* Policy Lifecycle Manager (scp.py)
\* ------------------------------------------------------------------------
create_service_control_policy ==
    /\ pc = "start"
    /\ fn = "create_service_control_policy"
    /\ IF event.PolicyName = "" \/ document_missing(event.PolicyDocument)
       THEN Fail("ValueError") /\ UNCHANGED retry
       ELSE LET policy_document_json ==
                    validate_policy_document(event.PolicyDocument)
            IN  IF policy_document_json.err # ""
                THEN Fail(policy_document_json.err) /\ UNCHANGED retry
                ELSE /\ StartRetry("retry_with_backoff",
                                   Call("create_policy", event.PolicyName, "",
                                        policy_document_json.val),
                                   "policy_created", "top")
                     /\ UNCHANGED responses
    /\ UNCHANGED <<peer, event, org0, org, fn, loc, calls>>

create_policy_done ==
    /\ pc = "policy_created"
    /\ LET policy_id == retry.result[1] IN
       Succeed([NoData EXCEPT !.PolicyId = policy_id, !.Arn = Arn(policy_id)],
               policy_id)
    /\ UNCHANGED <<peer, event, org0, org, fn, loc, retry, calls>>

update_service_control_policy ==
    /\ pc = "start"
    /\ fn = "update_service_control_policy"
    /\ LET policy_id == event.PhysicalResourceId IN
       IF policy_id = "" \/ ~POLICY_ID_PATTERN(policy_id)
       THEN Fail("ValueError") /\ UNCHANGED retry
       ELSE IF event.PolicyName = "" \/ document_missing(event.PolicyDocument)
       THEN Fail("ValueError") /\ UNCHANGED retry
       ELSE LET policy_document_json ==
                    validate_policy_document(event.PolicyDocument)
            IN  IF policy_document_json.err # ""
                THEN Fail(policy_document_json.err) /\ UNCHANGED retry
                ELSE /\ StartRetry("retry_with_backoff",
                                   Call("update_policy", policy_id,
                                        event.PolicyName,
                                        policy_document_json.val),
                                   "policy_updated", "top")
                     /\ UNCHANGED responses
    /\ UNCHANGED <<peer, event, org0, org, fn, loc, calls>>

update_policy_done ==
    /\ pc = "policy_updated"
    /\ LET policy_id == event.PhysicalResourceId IN
       Succeed([NoData EXCEPT !.PolicyId = policy_id, !.Arn = Arn(policy_id)],
               policy_id)
    /\ UNCHANGED <<peer, event, org0, org, fn, loc, retry, calls>>

\* a handler without the "except PolicyNotFoundException" clause
policy_never_absent(out) == FALSE

\* a handler that takes every failed inspection for a deleted policy
any_error_means_deleted(out) == out.err # ""

\* "except organizations_client.exceptions.PolicyNotFoundException"
policy_already_deleted(out) == out.err = "PolicyNotFoundException"

delete_service_control_policy ==
    /\ pc = "start"
    /\ fn = "delete_service_control_policy"
    /\ LET policy_id == event.PhysicalResourceId IN
       IF policy_id = "" \/ startswith(policy_id, "Failed/")
       THEN Succeed(NoData, policy_id) /\ UNCHANGED <<retry, calls>>
       ELSE IF ~POLICY_ID_PATTERN(policy_id)
       THEN Fail("ValueError") /\ UNCHANGED <<retry, calls>>
       ELSE \E out \in ReadOutcomes(org, get_policy_attachments(policy_id)) :
              /\ calls' = Append(calls,
                    Answered(get_policy_attachments(policy_id), out))
              /\ IF policy_already_deleted(out)
                 THEN Succeed(NoData, policy_id) /\ UNCHANGED retry
                 ELSE /\ StartRetry("retry_with_backoff",
                                    Call("delete_policy", policy_id, "", ""),
                                    "policy_deleted", "top")
                      /\ UNCHANGED responses
    /\ UNCHANGED <<peer, event, org0, org, fn, loc>>

delete_policy_done ==
    /\ pc = "policy_deleted"
    /\ Succeed([NoData EXCEPT !.PolicyId = event.PhysicalResourceId],
               event.PhysicalResourceId)
    /\ UNCHANGED <<peer, event, org0, org, fn, loc, retry, calls>>

\* ------------------------------------------------------------------------
\* Organizational-Unit Lifecycle Manager (units.py)
\* ------------------------------------------------------------------------
\* "if children and isinstance(children, Iterable) and not isinstance(children, str)"
has_children(children) == children # << >>

create_organizational_unit ==
    /\ pc = "start"
    /\ fn = "create_organizational_unit"
    /\ LET parent_id == event.ParentId
           create_ou(resolved_parent_id) ==
               /\ StartRetry("retry_with_backoff",
                             Call("create_organizational_unit",
                                  resolved_parent_id, event.Name, ""),
                             "ou_created", "top")
               /\ UNCHANGED responses
       IN  IF parent_id = "" \/ event.Name = "" \/ strip(event.Name) = ""
           THEN Fail("ValueError") /\ UNCHANGED <<retry, calls>>
           \* resolve_parent_id
           ELSE IF IsRootAlias(parent_id)
           THEN \E out \in ReadOutcomes(org, Call("list_roots", "", "", "")) :
                  /\ calls' = Append(calls,
                        Answered(Call("list_roots", "", "", ""), out))
                  /\ IF out.err = "" /\ out.val # << >>
                     THEN create_ou(out.val[1])
                     ELSE Fail(resolution_failure(out)) /\ UNCHANGED retry
           ELSE IF ~(ROOT_ID_PATTERN(parent_id) \/ OU_ID_PATTERN(parent_id))
           THEN Fail("ValueError") /\ UNCHANGED <<retry, calls>>
           ELSE create_ou(parent_id) /\ UNCHANGED calls
    /\ UNCHANGED <<peer, event, org0, org, fn, loc>>

\* the create call has returned: the success outcome is sent before the
\* children are looked at
create_ou_created ==
    /\ pc = "ou_created"
    /\ LET ou_id == retry.result[1] IN
       /\ Notify(send_success_response([NoData EXCEPT !.Id = ou_id,
                                                     !.Arn = Arn(ou_id)], ou_id))
       /\ loc' = [loc EXCEPT !.ou_id = ou_id, !.ou_arn = Arn(ou_id),
                             !.children = event.Children, !.i = 1]
       /\ pc' = IF has_children(event.Children) THEN "child" ELSE "done"
    /\ UNCHANGED <<peer, event, org0, org, fn, retry, calls>>

\* a move that takes the new OU for the source and the parent for the
\* destination
move_out_of_new_ou(child_account_id, current_parent_id, ou_id) ==
    Call("move_account", child_account_id, ou_id, current_parent_id)

\* "move_account_with_retry(child_account_id, current_parent_id, ou_id, ...)"
move_into_new_ou(child_account_id, current_parent_id, ou_id) ==
    Call("move_account", child_account_id, current_parent_id, ou_id)

\* a child loop whose failures reach the top-level try of create
create_child_failure_propagates == "top"

\* "Continue with other children rather than failing entire operation":
\* where create goes on when the move of a child raises
after_failed_create_child == "child"

\* one pass of "for child_account_id in children" of create
create_ou_child ==
    /\ pc = "child"
    /\ fn = "create_organizational_unit"
    /\ loc.i <= Len(loc.children)
    /\ LET child_account_id == loc.children[loc.i] IN
       IF ~validate_account_id(child_account_id)
       THEN UNCHANGED <<pc, retry, calls>>
       ELSE \E out \in ReadOutcomes(org,
                         Call("list_parents", child_account_id, "", "")) :
              /\ calls' = Append(calls,
                    Answered(Call("list_parents", child_account_id, "", ""), out))
              /\ IF out.err # "" \/ out.val = << >>
                 THEN UNCHANGED <<pc, retry>>
                 ELSE StartRetry("move_account_with_retry",
                                 move_into_new_ou(child_account_id,
                                                  out.val[1], loc.ou_id),
                                 "child", after_failed_create_child)
    /\ loc' = [loc EXCEPT !.i = @ + 1]
    /\ UNCHANGED <<peer, event, org0, org, fn, responses>>

create_ou_children_done ==
    /\ pc = "child"
    /\ fn = "create_organizational_unit"
    /\ loc.i > Len(loc.children)
    /\ pc' = "done"
    /\ UNCHANGED <<peer, event, org0, org, fn, loc, retry, calls, responses>>

update_organizational_unit ==
    /\ pc = "start"
    /\ fn = "update_organizational_unit"
    /\ LET ou_id == event.PhysicalResourceId IN
       IF ou_id = "" \/ ~validate_ou_id(ou_id)
       THEN Fail("ValueError") /\ UNCHANGED <<loc, retry>>
       ELSE IF event.Name = "" \/ strip(event.Name) = ""
       THEN Fail("ValueError") /\ UNCHANGED <<loc, retry>>
       ELSE /\ StartRetry("retry_with_backoff",
                          Call("update_organizational_unit", ou_id, event.Name, ""),
                          "ou_updated", "top")
            /\ loc' = [loc EXCEPT !.ou_id = ou_id]
            /\ UNCHANGED responses
    /\ UNCHANGED <<peer, event, org0, org, fn, calls>>

\* the update call has returned: on to the children, the outcome comes last
update_ou_updated ==
    /\ pc = "ou_updated"
    /\ loc' = [loc EXCEPT !.ou_arn = Arn(retry.result[1]),
                          !.children = event.Children, !.i = 1]
    /\ pc' = IF has_children(event.Children) THEN "update_child"
                                             ELSE "update_finish"
    /\ UNCHANGED <<peer, event, org0, org, fn, retry, calls, responses>>

\* a loop that takes no child to be in the OU already
never_in_ou(current_parent_id, ou_id) == FALSE

\* "if current_parent_id == ou_id: continue"
already_in_ou(current_parent_id, ou_id) == current_parent_id = ou_id

\* "move_account_with_retry(child_account_id, current_parent_id, ou_id, ...)"
move_into_updated_ou(child_account_id, current_parent_id, ou_id) ==
    Call("move_account", child_account_id, current_parent_id, ou_id)

\* a loop whose child failures reach the function's top-level try
child_failure_propagates == "top"

\* "except Exception as child_error": logged, on to the next child
after_failed_update_child == "update_child"

\* one pass of "for child_account_id in children" of update
update_ou_child ==
    /\ pc = "update_child"
    /\ loc.i <= Len(loc.children)
    /\ LET child_account_id == loc.children[loc.i] IN
       IF ~validate_account_id(child_account_id)
       THEN UNCHANGED <<pc, retry, calls>>
       ELSE \E out \in ReadOutcomes(org,
                         Call("list_parents", child_account_id, "", "")) :
              /\ calls' = Append(calls,
                    Answered(Call("list_parents", child_account_id, "", ""), out))
              /\ IF out.err # "" \/ out.val = << >>
                 THEN UNCHANGED <<pc, retry>>
                 ELSE IF already_in_ou(out.val[1], loc.ou_id)
                 THEN UNCHANGED <<pc, retry>>
                 ELSE StartRetry("move_account_with_retry",
                                 move_into_updated_ou(child_account_id,
                                                      out.val[1], loc.ou_id),
                                 "update_child", after_failed_update_child)
    /\ loc' = [loc EXCEPT !.i = @ + 1]
    /\ UNCHANGED <<peer, event, org0, org, fn, responses>>

update_ou_children_done ==
    /\ pc = "update_child"
    /\ loc.i > Len(loc.children)
    /\ pc' = "update_finish"
    /\ UNCHANGED <<peer, event, org0, org, fn, loc, retry, calls, responses>>

update_ou_finish ==
    /\ pc = "update_finish"
    /\ Succeed([NoData EXCEPT !.Id = loc.ou_id, !.Arn = loc.ou_arn], loc.ou_id)
    /\ UNCHANGED <<peer, event, org0, org, fn, loc, retry, calls>>

delete_organizational_unit ==
    /\ pc = "start"
    /\ fn = "delete_organizational_unit"
    /\ LET ou_id == event.PhysicalResourceId IN
       IF ou_id = "" \/ startswith(ou_id, "Failed/")
       THEN Succeed(NoData, ou_id) /\ UNCHANGED loc
       ELSE IF ~validate_ou_id(ou_id)
       THEN Fail("ValueError") /\ UNCHANGED loc
       ELSE /\ loc' = [loc EXCEPT !.ou_id = ou_id]
            /\ pc' = "move_all_children_to_root"
            /\ UNCHANGED responses
    /\ UNCHANGED <<peer, event, org0, org, fn, retry, calls>>

\* move_all_children_to_root up to its list_roots call; what it raises is
\* caught by delete_organizational_unit, which goes on to the delete call
move_all_children_to_root ==
    /\ pc = "move_all_children_to_root"
    /\ \E out \in ReadOutcomes(org, Call("list_roots", "", "", "")) :
        /\ calls' = Append(calls,
              Answered(Call("list_roots", "", "", ""), out))
        /\ IF out.err = "" /\ out.val # << >>
           THEN /\ loc' = [loc EXCEPT !.root_id = out.val[1]]
                /\ pc' = "list_children"
           ELSE /\ pc' = "delete_ou"
                /\ UNCHANGED loc
    /\ UNCHANGED <<peer, event, org0, org, fn, retry, responses>>

move_all_list_children ==
    /\ pc = "list_children"
    /\ \E out \in ReadOutcomes(org,
                      Call("list_children", loc.ou_id, "ACCOUNT", "")) :
        /\ calls' = Append(calls,
              Answered(Call("list_children", loc.ou_id, "ACCOUNT", ""), out))
        /\ IF out.err = "" /\ out.val # << >>
           THEN /\ loc' = [loc EXCEPT !.children = out.val, !.i = 1]
                /\ pc' = "root_child"
           ELSE /\ pc' = "delete_ou"
                /\ UNCHANGED loc
    /\ UNCHANGED <<peer, event, org0, org, fn, retry, responses>>

\* a deletion to which a failed move of a child is fatal
move_failure_is_fatal == "top"

\* where move_all_children_to_root goes when the move of one child raises
after_failed_move == "delete_ou"

\* a move that takes the root for the source and the OU for the destination
move_from_root(child_id, ou_id, root_id) ==
    Call("move_account", child_id, root_id, ou_id)

\* "move_account_with_retry(child_id, ou_id, root_id, organizations_client)"
move_to_root(child_id, ou_id, root_id) ==
    Call("move_account", child_id, ou_id, root_id)

\* one pass of "for child in children" of move_all_children_to_root
move_all_child ==
    /\ pc = "root_child"
    /\ IF loc.i <= Len(loc.children)
       THEN /\ StartRetry("move_account_with_retry",
                          move_to_root(loc.children[loc.i],
                                       loc.ou_id, loc.root_id),
                          "root_child", after_failed_move)
            /\ loc' = [loc EXCEPT !.i = @ + 1]
       ELSE /\ pc' = "delete_ou"
            /\ UNCHANGED <<loc, retry>>
    /\ UNCHANGED <<peer, event, org0, org, fn, calls, responses>>

delete_ou ==
    /\ pc = "delete_ou"
    /\ StartRetry("retry_with_backoff",
                  Call("delete_organizational_unit", loc.ou_id, "", ""),
                  "ou_deleted", "top")
    /\ UNCHANGED <<peer, event, org0, org, fn, loc, calls, responses>>

delete_ou_done ==
    /\ pc = "ou_deleted"
    /\ Succeed([NoData EXCEPT !.Id = loc.ou_id], loc.ou_id)
    /\ UNCHANGED <<peer, event, org0, org, fn, loc, retry, calls>>

\* ------------------------------------------------------------------------
\* Dispatcher (handler.py)
\* ------------------------------------------------------------------------
SUPPORTED_REQUEST_TYPES == {"Create", "Update", "Delete"}

SUPPORTED_RESOURCE_TYPES ==
    { "Custom::ServiceControlPolicy", "Custom::ServiceControlPolicyAttachment",
      "Custom::OrganizationalUnit" }

\* a map that sends every request of a resource type to its create function
create_for_every_request(resource_type, request_type) ==
    CASE resource_type = "Custom::ServiceControlPolicy" ->
            "create_service_control_policy"
      [] resource_type = "Custom::ServiceControlPolicyAttachment" ->
            "create_service_control_policy_attachment"
      [] resource_type = "Custom::OrganizationalUnit" ->
            "create_organizational_unit"

RESOURCE_ACTION_MAP(resource_type, request_type) ==
    CASE resource_type = "Custom::ServiceControlPolicy" ->
            (CASE request_type = "Create" -> "create_service_control_policy"
               [] request_type = "Update" -> "update_service_control_policy"
               [] request_type = "Delete" -> "delete_service_control_policy")
      [] resource_type = "Custom::ServiceControlPolicyAttachment" ->
            (CASE request_type = "Create" -> "create_service_control_policy_attachment"
               [] request_type = "Update" -> "update_service_control_policy_attachment"
               [] request_type = "Delete" -> "delete_service_control_policy_attachment")
      [] resource_type = "Custom::OrganizationalUnit" ->
            (CASE request_type = "Create" -> "create_organizational_unit"
               [] request_type = "Update" -> "update_organizational_unit"
               [] request_type = "Delete" -> "delete_organizational_unit")

\* validate_event raises ValueError for these
validate_event_fails(e) ==
    \/ e.ResourceType = ""
    \/ e.RequestType = ""
    \/ e.ResourceType \notin SUPPORTED_RESOURCE_TYPES
    \/ e.RequestType \notin SUPPORTED_REQUEST_TYPES

handler ==
    /\ pc = "idle"
    /\ IF validate_event_fails(event)
       THEN /\ Notify(send_failure_response("Validation error",
                                             "ValueError", ""))
            /\ pc' = "done"
            /\ UNCHANGED fn
       ELSE /\ fn' = RESOURCE_ACTION_MAP(event.ResourceType, event.RequestType)
            /\ pc' = "start"
            /\ UNCHANGED responses
    /\ UNCHANGED <<peer, event, org0, org, loc, retry, calls>>

\* ------------------------------------------------------------------------
\* Requests and remote states the model starts from
\* ------------------------------------------------------------------------
NoEvent ==
    [ ResourceType |-> "", RequestType |-> "", PhysicalResourceId |-> "",
      LogicalResourceId |-> LogicalId, PolicyId |-> "", TargetId |-> "",
      ParentId |-> "", Name |-> "", Children |-> << >>,
      PolicyName |-> "", PolicyDocument |-> NoDocument,
      OldPolicyId |-> "", OldTargetId |-> "", ResponseURL |-> Reachable ]

AccountIds == <<A1, A2, A3>>

OrgAccounts == { AccountIds[i] : i \in 1..NumAccounts }

ExistingOU == [Id |-> OU1, Name |-> "Existing", ParentId |-> R1]

BaseOrg ==
    [ roots |-> <<R1>>,
      policies |-> {DEFAULT_FULL_ACCESS_POLICY_ID, P1},
      names |-> { <<DEFAULT_FULL_ACCESS_POLICY_ID, "FullAWSAccess">>,
                  <<P1, "Existing">> },
      attached |-> { <<DEFAULT_FULL_ACCESS_POLICY_ID, R1>>,
                     <<DEFAULT_FULL_ACCESS_POLICY_ID, A1>> },
      ous |-> {ExistingOU},
      parentOf |-> [a \in OrgAccounts |-> R1],
      faulty |-> TRUE ]

\* an organization without a root (nothing can hang under it)
NoRootOrg ==
    [ BaseOrg EXCEPT !.roots = << >>, !.ous = {},
                     !.attached = {<<DEFAULT_FULL_ACCESS_POLICY_ID, A1>>} ]

\* attachments of P1 and the default policy to R1 and A1 in which each
\* target has at least one policy, as the remote enforces
AttachOrgs ==
    { [BaseOrg EXCEPT !.attached = S] :
        S \in { T \in SUBSET ({P1, DEFAULT_FULL_ACCESS_POLICY_ID} \X {R1, A1}) :
                  \A t \in {R1, A1} : \E pr \in T : pr[2] = t } }
    \cup { [BaseOrg EXCEPT !.policies = {DEFAULT_FULL_ACCESS_POLICY_ID}],
           NoRootOrg }

\* the accounts spread over the root and the existing OU
OuOrgs ==
    { [BaseOrg EXCEPT !.parentOf = f] : f \in [OrgAccounts -> {R1, OU1}] }
    \cup { NoRootOrg, [BaseOrg EXCEPT !.ous = {}] }

\* the first account under the root or under the existing OU
OuCreateOrgs ==
    { [BaseOrg EXCEPT !.parentOf[A1] = par] : par \in {R1, OU1} }
    \cup { NoRootOrg }

AttachmentEvents ==
    { [NoEvent EXCEPT !.ResourceType = "Custom::ServiceControlPolicyAttachment",
                      !.RequestType = "Create", !.PolicyId = p, !.TargetId = t] :
        p \in {"", P1, Bogus}, t \in {"", "root", "ROOT", R1, A1, OU1, Bogus} }
    \cup
    { [NoEvent EXCEPT !.ResourceType = "Custom::ServiceControlPolicyAttachment",
                      !.RequestType = "Delete", !.PhysicalResourceId = id,
                      !.PolicyId = p, !.TargetId = t] :
        id \in {"", FailedId, AttId}, p \in {"", P1},
        t \in {"", "root", R1, A1, Bogus} }

PolicyEvents ==
    { [NoEvent EXCEPT !.ResourceType = "Custom::ServiceControlPolicy",
                      !.RequestType = "Delete", !.PhysicalResourceId = id] :
        id \in {"", FailedId, P1, Bogus} }

\* the lists of at most n children taken, in order, from cs
RECURSIVE SubLists(_, _)
SubLists(cs, n) ==
    IF cs = << >> \/ n = 0 THEN { << >> }
    ELSE SubLists(Tail(cs), n)
         \cup { <<Head(cs)>> \o l : l \in SubLists(Tail(cs), n - 1) }

ChildLists == SubLists(<<A1, BadChild, A2>>, MaxChildren)

OuCreateEvents ==
    { [NoEvent EXCEPT !.ResourceType = "Custom::OrganizationalUnit",
                      !.RequestType = "Create", !.ParentId = pid,
                      !.Name = n, !.Children = cl] :
        pid \in {"", "root", OU1, Bogus}, n \in {"", " ", "Sandbox"},
        cl \in ChildLists }

OuDeleteEvents ==
    { [NoEvent EXCEPT !.ResourceType = "Custom::OrganizationalUnit",
                      !.RequestType = "Delete", !.PhysicalResourceId = id] :
        id \in {"", FailedId, OU1, Bogus} }

BadEvents == { [NoEvent EXCEPT !.ResourceType = "Custom::Unknown",
                               !.RequestType = "Create"] }

Scenarios ==
    (AttachmentEvents \X AttachOrgs)
    \cup (PolicyEvents \X AttachOrgs)
    \cup (OuCreateEvents \X OuCreateOrgs)
    \cup (OuDeleteEvents \X OuOrgs)
    \cup (BadEvents \X {BaseOrg})

Init ==
    /\ \E sc \in Scenarios : event = sc[1] /\ org = sc[2] /\ org0 = sc[2]
    /\ fn = ""
    /\ pc = "idle"
    /\ loc = NoLoc
    /\ retry = NoRetry
    /\ calls = << >>
    /\ responses = << >>
    /\ peer = NoPeer

Next ==
    \/ handler
    \/ retry_with_backoff
    \/ move_account_with_retry
    \/ validate_target_id
    \/ create_service_control_policy_attachment
    \/ create_attachment_check
    \/ create_attachment_done
    \/ delete_service_control_policy_attachment
    \/ delete_attachment_check
    \/ delete_attachment_count
    \/ handle_default_policy_attachment
    \/ delete_attachment_detach
    \/ delete_attachment_done
    \/ delete_service_control_policy
    \/ delete_policy_done
    \/ create_organizational_unit
    \/ create_ou_created
    \/ create_ou_child
    \/ create_ou_children_done
    \/ delete_organizational_unit
    \/ move_all_children_to_root
    \/ move_all_list_children
    \/ move_all_child
    \/ delete_ou
    \/ delete_ou_done

Spec == Init /\ [][Next]_vars

\* the requests with at most one child over a transport that may fail, and,
\* against the base organization, without a ResponseURL
NotifyScenarios ==
    { <<[sc[1] EXCEPT !.ResponseURL = Unstable], sc[2]>> :
        sc \in { x \in Scenarios : Len(x[1].Children) <= 1 } }
    \cup
    { <<[sc[1] EXCEPT !.ResponseURL = ""], sc[2]>> :
        sc \in { x \in Scenarios :
                    Len(x[1].Children) <= 1 /\ x[2] = BaseOrg } }

InitNotify ==
    /\ \E sc \in NotifyScenarios : event = sc[1] /\ org = sc[2] /\ org0 = sc[2]
    /\ fn = ""
    /\ pc = "idle"
    /\ loc = NoLoc
    /\ retry = NoRetry
    /\ calls = << >>
    /\ responses = << >>
    /\ peer = NoPeer

SpecNotify == InitNotify /\ [][Next]_vars

\* ------------------------------------------------------------------------
\* Two concurrent Attachment Creates of one pair
\* ------------------------------------------------------------------------
RaceEvents ==
    { [NoEvent EXCEPT !.ResourceType = "Custom::ServiceControlPolicyAttachment",
                      !.RequestType = "Create", !.PolicyId = P1,
                      !.TargetId = t] :
        t \in {"root", A1, OU1} }

\* a remote that fails only as its state dictates
RaceOrgs == { [o EXCEPT !.faulty = FALSE] : o \in AttachOrgs }

InitRace ==
    /\ \E sc \in RaceEvents \X RaceOrgs :
          event = sc[1] /\ org = sc[2] /\ org0 = sc[2]
    /\ fn = ""
    /\ pc = "idle"
    /\ loc = NoLoc
    /\ retry = NoRetry
    /\ calls = << >>
    /\ responses = << >>
    /\ peer = [NoPeer EXCEPT !.pc = "idle"]

NextRace ==
    \/ handler
    \/ retry_with_backoff
    \/ validate_target_id
    \/ create_service_control_policy_attachment
    \/ create_attachment_check
    \/ create_attachment_done
    \/ switch

SpecRace == InitRace /\ [][NextRace]_vars

\* the start of the handling of one of the requests in S
InitWith(S) ==
    /\ \E sc \in S : event = sc[1] /\ org = sc[2] /\ org0 = sc[2]
    /\ fn = ""
    /\ pc = "idle"
    /\ loc = NoLoc
    /\ retry = NoRetry
    /\ calls = << >>
    /\ responses = << >>
    /\ peer = NoPeer

\* ------------------------------------------------------------------------
\* OU Create and OU Update with their child accounts
\* ------------------------------------------------------------------------
OuUpdateEvents ==
    { [NoEvent EXCEPT !.ResourceType = "Custom::OrganizationalUnit",
                      !.RequestType = "Update", !.PhysicalResourceId = id,
                      !.Name = n, !.Children = cl] :
        id \in {"", OU1, Bogus}, n \in {"", "Sandbox"}, cl \in ChildLists }

\* every account under the root or under the OU; or no OU at all
OuUpdateOrgs ==
    { [BaseOrg EXCEPT !.parentOf = f] : f \in [OrgAccounts -> {R1, OU1}] }
    \cup { [BaseOrg EXCEPT !.ous = {}] }

OuScenarios ==
    (OuCreateEvents \X OuCreateOrgs) \cup (OuUpdateEvents \X OuUpdateOrgs)

InitOu == InitWith(OuScenarios)

NextOu ==
    \/ handler
    \/ retry_with_backoff
    \/ move_account_with_retry
    \/ create_organizational_unit
    \/ create_ou_created
    \/ create_ou_child
    \/ create_ou_children_done
    \/ update_organizational_unit
    \/ update_ou_updated
    \/ update_ou_child
    \/ update_ou_children_done
    \/ update_ou_finish

SpecOu == InitOu /\ [][NextOu]_vars

\* ------------------------------------------------------------------------
\* OU Create and OU Update with children of every shape
\* ------------------------------------------------------------------------
ShapedChildLists == SubLists(<<BadChild, LineFedChild, A1>>, MaxChildren)

ShapeEvents ==
    { [NoEvent EXCEPT !.ResourceType = "Custom::OrganizationalUnit",
                      !.RequestType = "Create", !.ParentId = "root",
                      !.Name = "Sandbox", !.Children = cl] :
        cl \in ShapedChildLists }
    \cup
    { [NoEvent EXCEPT !.ResourceType = "Custom::OrganizationalUnit",
                      !.RequestType = "Update", !.PhysicalResourceId = OU1,
                      !.Name = "Sandbox", !.Children = cl] :
        cl \in ShapedChildLists }

ShapeScenarios == ShapeEvents \X {BaseOrg}

InitShape == InitWith(ShapeScenarios)

SpecShape == InitShape /\ [][NextOu]_vars

\* ------------------------------------------------------------------------
\* Policy Create and Update with their documents
\* ------------------------------------------------------------------------
Texts ==
    UNION { { json_dumps(d), Spaced(json_dumps(d)), Broken(json_dumps(d)) } :
            d \in Structs }

Documents ==
    { Dict(d) : d \in { x \in Structs : x.top = "object" } }
    \cup { Str(t) : t \in Texts \cup { << >> } }
    \cup { NoDocument }

PolicyCreateEvents ==
    { [NoEvent EXCEPT !.ResourceType = "Custom::ServiceControlPolicy",
                      !.RequestType = "Create", !.PolicyName = n,
                      !.PolicyDocument = doc] :
        n \in {"", "Guardrail"}, doc \in Documents }

PolicyUpdateEvents ==
    { [NoEvent EXCEPT !.ResourceType = "Custom::ServiceControlPolicy",
                      !.RequestType = "Update", !.PhysicalResourceId = id,
                      !.PolicyName = n, !.PolicyDocument = doc] :
        id \in {"", P1, Bogus}, n \in {"", "Guardrail"}, doc \in Documents }

DocScenarios ==
    (PolicyCreateEvents \cup PolicyUpdateEvents) \X { BaseOrg }

InitDoc == InitWith(DocScenarios)

NextDoc ==
    \/ handler
    \/ retry_with_backoff
    \/ create_service_control_policy
    \/ create_policy_done
    \/ update_service_control_policy
    \/ update_policy_done

SpecDoc == InitDoc /\ [][NextDoc]_vars

\* ------------------------------------------------------------------------
\* Attachment Update
\* ------------------------------------------------------------------------
AttachmentUpdateEvents ==
    { [NoEvent EXCEPT !.ResourceType = "Custom::ServiceControlPolicyAttachment",
                      !.RequestType = "Update", !.PhysicalResourceId = id,
                      !.PolicyId = p, !.TargetId = t,
                      !.OldPolicyId = op, !.OldTargetId = ot] :
        id \in {"", AttId}, p \in {"", P2, Bogus},
        t \in {"", "root", A1, Bogus}, op \in {"", P1}, ot \in {"", R1} }

\* a second policy; the default policy on every target, or on none
AttachmentUpdateOrgs ==
    LET TwoPolicies ==
            [BaseOrg EXCEPT !.policies = @ \cup {P2},
                            !.names = @ \cup {<<P2, "Second">>}]
        Everywhere == {DEFAULT_FULL_ACCESS_POLICY_ID} \X {R1, A1}
    IN  { [TwoPolicies EXCEPT !.attached = Everywhere \cup S] :
            S \in SUBSET {<<P1, R1>>, <<P2, R1>>, <<P2, A1>>} }
        \cup { [TwoPolicies EXCEPT !.attached = {<<P1, R1>>}] }

AttUpdateScenarios == AttachmentUpdateEvents \X AttachmentUpdateOrgs

InitAttUpdate == InitWith(AttUpdateScenarios)

NextAttUpdate ==
    \/ handler
    \/ retry_with_backoff
    \/ validate_target_id
    \/ update_service_control_policy_attachment
    \/ update_attachment_resolved
    \/ update_attachment_check_old
    \/ update_attachment_check_new
    \/ update_attachment_done
    \/ crash

SpecAttUpdate == InitAttUpdate /\ [][NextAttUpdate]_vars

\* ------------------------------------------------------------------------
\* Resolution of the alias "root"
\* ------------------------------------------------------------------------
RootSpellings == {"root", "ROOT", "Root"}

ResolveEvents ==
    { [NoEvent EXCEPT !.ResourceType = "Custom::ServiceControlPolicyAttachment",
                      !.RequestType = "Create", !.PolicyId = P1,
                      !.TargetId = t] :
        t \in RootSpellings \cup {"", R1, R2, Bogus} }
    \cup
    { [NoEvent EXCEPT !.ResourceType = "Custom::OrganizationalUnit",
                      !.RequestType = "Create", !.ParentId = pid,
                      !.Name = "Sandbox", !.Children = cl] :
        pid \in RootSpellings \cup {R1, R2, Bogus}, cl \in {<< >>, <<A1>>} }

\* no root, one root, two roots in either order
ResolveOrgs ==
    { [BaseOrg EXCEPT !.roots = rs] : rs \in {<<R1>>, <<R1, R2>>, <<R2, R1>>} }
    \cup { NoRootOrg }

ResolveScenarios == ResolveEvents \X ResolveOrgs

InitResolve == InitWith(ResolveScenarios)

NextResolve ==
    \/ handler
    \/ retry_with_backoff
    \/ move_account_with_retry
    \/ validate_target_id
    \/ create_service_control_policy_attachment
    \/ create_attachment_check
    \/ create_attachment_done
    \/ create_organizational_unit
    \/ create_ou_created
    \/ create_ou_child
    \/ create_ou_children_done

SpecResolve == InitResolve /\ [][NextResolve]_vars

\* ------------------------------------------------------------------------
\* Requests that are sent twice
\* ------------------------------------------------------------------------
GuardrailDocument ==
    Dict([top |-> "object", keys |-> <<"Version", "Statement">>,
          kind |-> "list", items |-> <<"Deny">>])

ResendEvents ==
    LET Policy == [NoEvent EXCEPT !.ResourceType = "Custom::ServiceControlPolicy",
                                  !.PolicyName = "Guardrail",
                                  !.PolicyDocument = GuardrailDocument]
        Attachment ==
            [NoEvent EXCEPT !.ResourceType = "Custom::ServiceControlPolicyAttachment",
                            !.PolicyId = P1, !.TargetId = A1]
        Unit == [NoEvent EXCEPT !.ResourceType = "Custom::OrganizationalUnit",
                                !.Name = "Sandbox", !.Children = <<A1>>]
    IN  { [Policy EXCEPT !.RequestType = "Create"],
          [Policy EXCEPT !.RequestType = "Update", !.PhysicalResourceId = P1],
          [Policy EXCEPT !.RequestType = "Delete", !.PhysicalResourceId = P1],
          [Attachment EXCEPT !.RequestType = "Create"],
          [Attachment EXCEPT !.RequestType = "Update",
                             !.PhysicalResourceId = AttId,
                             !.OldPolicyId = P1, !.OldTargetId = R1],
          [Attachment EXCEPT !.RequestType = "Delete",
                             !.PhysicalResourceId = AttId],
          [Unit EXCEPT !.RequestType = "Create", !.ParentId = "root"],
          [Unit EXCEPT !.RequestType = "Update", !.PhysicalResourceId = OU1],
          [Unit EXCEPT !.RequestType = "Delete", !.PhysicalResourceId = OU1] }

\* P1 attached to the root, to the first account, to both or to neither;
\* the first account under the root or under the existing OU
ResendOrgs ==
    { [BaseOrg EXCEPT !.attached = @ \cup S, !.parentOf[A1] = par] :
        S \in SUBSET {<<P1, R1>>, <<P1, A1>>}, par \in {R1, OU1} }
    \cup { [BaseOrg EXCEPT !.attached = {<<P1, A1>>,
                                         <<DEFAULT_FULL_ACCESS_POLICY_ID, R1>>}] }

ResendScenarios == ResendEvents \X ResendOrgs

InitResend == InitWith(ResendScenarios)

NextResend ==
    \/ handler
    \/ retry_with_backoff
    \/ move_account_with_retry
    \/ validate_target_id
    \/ create_service_control_policy_attachment
    \/ create_attachment_check
    \/ create_attachment_done
    \/ delete_service_control_policy_attachment
    \/ delete_attachment_check
    \/ delete_attachment_count
    \/ handle_default_policy_attachment
    \/ delete_attachment_detach
    \/ delete_attachment_done
    \/ delete_service_control_policy
    \/ delete_policy_done
    \/ create_organizational_unit
    \/ create_ou_created
    \/ create_ou_child
    \/ create_ou_children_done
    \/ delete_organizational_unit
    \/ move_all_children_to_root
    \/ move_all_list_children
    \/ move_all_child
    \/ delete_ou
    \/ delete_ou_done
    \/ update_organizational_unit
    \/ update_ou_updated
    \/ update_ou_child
    \/ update_ou_children_done
    \/ update_ou_finish
    \/ create_service_control_policy
    \/ create_policy_done
    \/ update_service_control_policy
    \/ update_policy_done
    \/ update_service_control_policy_attachment
    \/ update_attachment_resolved
    \/ update_attachment_check_old
    \/ update_attachment_check_new
    \/ update_attachment_done
    \/ resend

SpecResend == InitResend /\ [][NextResend]_vars

\* ------------------------------------------------------------------------
\* Every operation under a scheduler that lets the handler run on
\* ------------------------------------------------------------------------
IsUnit(e) == e.ResourceType = "Custom::OrganizationalUnit"

\* the nine requests; the OU Create also with no child and with two
LiveEvents ==
    ResendEvents
    \cup { [e EXCEPT !.Children = cl] :
             e \in { x \in ResendEvents : IsUnit(x) /\ x.RequestType = "Create" },
             cl \in { << >>, <<A1, A2>> } }

\* for the policy and attachment requests: P1 attached to the root and the
\* first account, to neither, or the only policy of the first account
LiveAttachOrgs ==
    { [BaseOrg EXCEPT !.attached = @ \cup S] :
        S \in { {}, {<<P1, R1>>, <<P1, A1>>} } }
    \cup { [BaseOrg EXCEPT !.attached = {<<P1, A1>>,
                                         <<DEFAULT_FULL_ACCESS_POLICY_ID, R1>>}] }

\* for the OU requests: the first two accounts under the existing OU or
\* under the root
LiveOuOrgs ==
    { [BaseOrg EXCEPT !.parentOf =
          [a \in OrgAccounts |-> IF a \in {A1, A2} THEN par ELSE R1]] :
        par \in {R1, OU1} }

LiveScenarios ==
    ({ e \in LiveEvents : ~IsUnit(e) } \X LiveAttachOrgs)
    \cup ({ e \in LiveEvents : IsUnit(e) } \X LiveOuOrgs)

InitLive == InitWith(LiveScenarios)

NextLive ==
    \/ handler
    \/ retry_with_backoff
    \/ move_account_with_retry
    \/ validate_target_id
    \/ create_service_control_policy_attachment
    \/ create_attachment_check
    \/ create_attachment_done
    \/ delete_service_control_policy_attachment
    \/ delete_attachment_check
    \/ delete_attachment_count
    \/ handle_default_policy_attachment
    \/ delete_attachment_detach
    \/ delete_attachment_done
    \/ delete_service_control_policy
    \/ delete_policy_done
    \/ create_organizational_unit
    \/ create_ou_created
    \/ create_ou_child
    \/ create_ou_children_done
    \/ delete_organizational_unit
    \/ move_all_children_to_root
    \/ move_all_list_children
    \/ move_all_child
    \/ delete_ou
    \/ delete_ou_done
    \/ update_organizational_unit
    \/ update_ou_updated
    \/ update_ou_child
    \/ update_ou_children_done
    \/ update_ou_finish
    \/ create_service_control_policy
    \/ create_policy_done
    \/ update_service_control_policy
    \/ update_policy_done
    \/ update_service_control_policy_attachment
    \/ update_attachment_resolved
    \/ update_attachment_check_old
    \/ update_attachment_check_new
    \/ update_attachment_done

\* the handler is a sequential program that the runtime keeps running: a
\* step that can be taken is taken
SpecLive == InitLive /\ [][NextLive]_vars /\ WF_vars(NextLive)

\* ------------------------------------------------------------------------
\* Updates and deletes of resources named by their physical identifier
\* ------------------------------------------------------------------------
PolicyIdUpdateEvents ==
    { [NoEvent EXCEPT !.ResourceType = "Custom::ServiceControlPolicy",
                      !.RequestType = "Update", !.PhysicalResourceId = id,
                      !.PolicyName = n, !.PolicyDocument = doc] :
        id \in {"", FailedId, P1, Bogus}, n \in {"", "Guardrail"},
        doc \in { NoDocument, GuardrailDocument,
                  Dict([GuardrailDocument.struct EXCEPT !.items = <<"allow">>]) } }

AttachmentDeleteEvents ==
    { e \in AttachmentEvents : e.RequestType = "Delete" }

IdScenarios ==
    (AttachmentDeleteEvents \X AttachOrgs)
    \cup (PolicyEvents \X AttachOrgs)
    \cup (PolicyIdUpdateEvents \X AttachOrgs)
    \cup (OuDeleteEvents \X OuOrgs)
    \cup (OuUpdateEvents \X OuUpdateOrgs)
    \cup AttUpdateScenarios

InitIds == InitWith(IdScenarios)

NextIds ==
    \/ handler
    \/ retry_with_backoff
    \/ move_account_with_retry
    \/ validate_target_id
    \/ delete_service_control_policy_attachment
    \/ delete_attachment_check
    \/ delete_attachment_count
    \/ handle_default_policy_attachment
    \/ delete_attachment_detach
    \/ delete_attachment_done
    \/ delete_service_control_policy
    \/ delete_policy_done
    \/ delete_organizational_unit
    \/ move_all_children_to_root
    \/ move_all_list_children
    \/ move_all_child
    \/ delete_ou
    \/ delete_ou_done
    \/ update_organizational_unit
    \/ update_ou_updated
    \/ update_ou_child
    \/ update_ou_children_done
    \/ update_ou_finish
    \/ update_service_control_policy
    \/ update_policy_done
    \/ update_service_control_policy_attachment
    \/ update_attachment_resolved
    \/ update_attachment_check_old
    \/ update_attachment_check_new
    \/ update_attachment_done

SpecIds == InitIds /\ [][NextIds]_vars

\* ------------------------------------------------------------------------
\* Requests of every resource type and request type
\* ------------------------------------------------------------------------
DispatchEvents ==
    { [NoEvent EXCEPT !.ResourceType = rt, !.RequestType = rq,
                      !.PhysicalResourceId = id] :
        rt \in SUPPORTED_RESOURCE_TYPES \cup {"", "Custom::Unknown"},
        rq \in SUPPORTED_REQUEST_TYPES \cup {"", "Read"},
        id \in {"", FailedId, Bogus} }

InitDispatch == InitWith(DispatchEvents \X {BaseOrg})

NextDispatch ==
    \/ handler
    \/ create_service_control_policy
    \/ update_service_control_policy
    \/ delete_service_control_policy
    \/ create_service_control_policy_attachment
    \/ update_service_control_policy_attachment
    \/ delete_service_control_policy_attachment
    \/ create_organizational_unit
    \/ update_organizational_unit
    \/ delete_organizational_unit

SpecDispatch == InitDispatch /\ [][NextDispatch]_vars

\* ------------------------------------------------------------------------
\* Reading the record of calls and outcomes
\* ------------------------------------------------------------------------
Done == pc = "done"

CallIdx(api, a, b) ==
    { i \in 1..Len(calls) :
        calls[i].api = api /\ calls[i].a = a /\ calls[i].b = b }

ApiIdx(api) == { i \in 1..Len(calls) : calls[i].api = api }

\* every call issued before the i-th succeeded
AllOkBefore(i) == \A j \in 1..(i - 1) : calls[j].res = "ok"

OneOutcome(status) ==
    /\ Len(responses) = 1
    /\ responses[1].Status = status

\* ------------------------------------------------------------------------
\* Attachment Create and Delete
\* ------------------------------------------------------------------------
\* C1: Attachment Create for a (policy, resolved target) pair that is already
\* attached remotely ends in a success outcome and issues no attach call.
C1_AlreadyAttachedCreateIsNoOp ==
    ( /\ fn = "create_service_control_policy_attachment"
      /\ Done
      /\ loc.target # ""
      /\ <<event.PolicyId, loc.target>> \in org0.attached )
    => /\ OneOutcome("SUCCESS")
       /\ ApiIdx("attach_policy") = {}

\* the request deletes the attachment of a policy whose only target is the
\* resolved target, on which it is the only policy
SoleAttachment ==
    /\ fn = "delete_service_control_policy_attachment"
    /\ loc.target # ""
    /\ TargetsOf(org0, event.PolicyId) = {loc.target}
    /\ PoliciesOn(org0, loc.target) = {event.PolicyId}

DefaultAttachIdx ==
    CallIdx("attach_policy", DEFAULT_FULL_ACCESS_POLICY_ID, loc.target)

DetachIdx == CallIdx("detach_policy", event.PolicyId, loc.target)

PolicyListingIdx == CallIdx("list_targets_for_policy", event.PolicyId, "")

CountReadOk ==
    \E i \in PolicyListingIdx, j \in PolicyListingIdx :
        i < j /\ calls[j].res = "ok"

C3_DefaultAttachedBeforeDetachingOnlyPolicy ==
    LET n == Len(calls) IN
    ( /\ fn = "delete_service_control_policy_attachment"
      /\ n \in DetachIdx
      /\ AllOkBefore(n)
      /\ PoliciesOn(org, loc.target) = {event.PolicyId} )
    => \E i \in DefaultAttachIdx : i < n

\* ------------------------------------------------------------------------
\* Retry Engine
\* ------------------------------------------------------------------------
Engines == {"retry_with_backoff", "move_account_with_retry"}

\* positions in the record of the calls the current engine run has made
EngineCalls == (retry.first + 1)..(retry.first + retry.ncalls)

LastEngineCall == retry.first + retry.ncalls

\* C4: the Retry Engine invokes the operation until its first success and
\* never more than MAX_RETRY_ATTEMPTS (10) times: every call but the last is
\* a failed call that was retried; when all attempts fail with retryable
\* errors it has made exactly 10 calls and raises the last observed error;
\* when attempt k succeeds it returns that result and the k-th call is its
\* last.
C4_RetryUntilFirstSuccessAtMostTen ==
    retry.engine = "retry_with_backoff" =>
      /\ retry.ncalls <= MAX_RETRY_ATTEMPTS
      /\ LastEngineCall <= Len(calls)
      /\ \A i \in EngineCalls :
            /\ calls[i].api = retry.call.api
            /\ i < LastEngineCall => calls[i].res = "retry"
      /\ (retry.status = "running" /\ retry.ncalls > 0)
            => calls[LastEngineCall].res = "retry"
      /\ retry.status = "returned" =>
            /\ calls[LastEngineCall].res = "ok"
            /\ retry.ncalls = retry.attempt + 1
            /\ pc # "retry_with_backoff"
      /\ (retry.status = "raised" /\ retry.last_exception \in retryable_errors) =>
            /\ retry.ncalls = MAX_RETRY_ATTEMPTS
            /\ retry.raised = retry.last_exception
            /\ calls[LastEngineCall].res = "raised"
            /\ pc # "retry_with_backoff"

\* C4 witness: ten attempts failed with retryable errors and the engine
\* raised.
C4_Witness ==
    /\ retry.engine = "retry_with_backoff"
    /\ retry.status = "raised"
    /\ retry.ncalls = MAX_RETRY_ATTEMPTS
    /\ retry.last_exception \in retryable_errors

\* C5: a failure whose kind is not in the retryable set is raised on the
\* attempt where it occurs, first or later: that call is the engine's last,
\* the engine raises that error, and no sleep follows it (one sleep before
\* each attempt but the first).
C5_NonRetryableRaisedImmediately ==
    ( /\ retry.engine = "retry_with_backoff"
      /\ retry.last_exception # ""
      /\ retry.last_exception \notin retryable_errors )
    => /\ retry.status = "raised"
       /\ retry.raised = retry.last_exception
       /\ pc # "retry_with_backoff"
       /\ calls[LastEngineCall].res = "raised"
       /\ retry.ncalls = retry.attempt + 1
       /\ retry.sleeps = retry.ncalls - 1

\* C5 witness: a terminal error on a later attempt, after retried ones.
C5_Witness ==
    /\ retry.engine = "retry_with_backoff"
    /\ retry.last_exception # ""
    /\ retry.last_exception \notin retryable_errors
    /\ retry.status = "raised"
    /\ retry.ncalls > 1

Exhausted ==
    /\ retry.engine \in Engines
    /\ retry.status = "raised"
    /\ retry.ncalls = MAX_RETRY_ATTEMPTS

\* C6, as stated: when an engine exhausts its 10 attempts on retryable
\* errors, the error it raises is tagged RetryExhaustedError.
C6_ExhaustionTaggedRetryExhausted ==
    (Exhausted /\ retry.last_exception \in retryable_errors)
    => retry.raised = "RetryExhaustedError"

\* C6, amended: an engine that exhausts its 10 attempts raises the last
\* observed error itself, with no tag: the raised error is one of the
\* retryable kinds, and when it reaches the function's top level the failure
\* outcome carries that kind, in the same form as for a terminal error
\* raised on a single attempt; only a validation failure (ValueError) has a
\* form of its own.
C6_ExhaustionRaisesLastErrorUntagged ==
    (Exhausted /\ retry.last_exception \in retryable_errors)
    => /\ retry.raised = retry.last_exception
       /\ retry.raised # "RetryExhaustedError"
       /\ (Done /\ retry.onraise = "top") =>
             LET r == responses[Len(responses)] IN
             /\ r.Status = "FAILED"
             /\ r.Error = retry.last_exception
             /\ [r EXCEPT !.Put = ""] = ExceptClause(fn, retry.last_exception)
             /\ r.Reason # "Validation error"

\* C6 witness: exhausted retries became the operation's failure outcome.
C6_Witness ==
    /\ Exhausted
    /\ retry.last_exception \in retryable_errors
    /\ retry.onraise = "top"
    /\ Done
    /\ responses[Len(responses)].Status = "FAILED"

\* ------------------------------------------------------------------------
\* Deletes of things that are not there
\* ------------------------------------------------------------------------
DeleteFns ==
    { "delete_service_control_policy",
      "delete_service_control_policy_attachment",
      "delete_organizational_unit" }

\* the identifier is empty or its leading characters spell "Failed/"
NeverCreated(id) ==
    \/ id = ""
    \/ \E n \in 0..Len(Chars[id]) : SubSeq(Chars[id], 1, n) = Chars["Failed/"]

\* C7: Delete of a policy, an attachment or an organizational unit whose
\* supplied identifier is empty or starts with "Failed/" ends in a success
\* outcome and issues no remote call of any kind.
C7_NeverCreatedDeleteIsLocalSuccess ==
    (fn \in DeleteFns /\ NeverCreated(event.PhysicalResourceId) /\ pc # "start")
    => /\ Done
       /\ OneOutcome("SUCCESS")
       /\ calls = << >>

\* C7 witness: a delete with a "Failed/..." identifier has finished.
C7_Witness ==
    /\ fn \in DeleteFns
    /\ event.PhysicalResourceId = FailedId
    /\ Done
    /\ OneOutcome("SUCCESS")

\* C8: Policy Delete for a well-formed policy id whose remote object is
\* already absent (the listing of the policy's targets reports
\* PolicyNotFoundException) ends in a success outcome and never issues
\* delete_policy.
C8_AbsentPolicyDeleteIsSuccess ==
    ( /\ fn = "delete_service_control_policy"
      /\ POLICY_ID_PATTERN(event.PhysicalResourceId)
      /\ Len(calls) >= 1
      /\ calls[1].res = "PolicyNotFoundException" )
    => /\ Done
       /\ OneOutcome("SUCCESS")
       /\ responses[1].PhysicalResourceId = event.PhysicalResourceId
       /\ ApiIdx("delete_policy") = {}
       /\ Len(calls) = 1

\* C8 witness: the listing of an absent, well-formed policy id was answered
\* with PolicyNotFoundException and the operation has finished.
C8_Witness ==
    /\ fn = "delete_service_control_policy"
    /\ POLICY_ID_PATTERN(event.PhysicalResourceId)
    /\ event.PhysicalResourceId \notin org0.policies
    /\ Len(calls) = 1
    /\ calls[1].api = "list_targets_for_policy"
    /\ calls[1].res = "PolicyNotFoundException"
    /\ Done

\* ------------------------------------------------------------------------
\* Organizational units and their child accounts
\* ------------------------------------------------------------------------
MoveIdx == ApiIdx("move_account")

DeleteOuIdx == ApiIdx("delete_organizational_unit")

\* the accounts named by the move calls, in the order of the calls
RECURSIVE MovedFrom(_)
MovedFrom(i) ==
    IF i > Len(calls) THEN << >>
    ELSE (IF calls[i].api = "move_account" THEN <<calls[i].a>> ELSE << >>)
         \o MovedFrom(i + 1)

NoMoveFails == \A i \in MoveIdx : calls[i].res = "ok"

\* the OU named by a well-formed OU Delete and its child accounts at the start
OuDelete ==
    /\ fn = "delete_organizational_unit"
    /\ validate_ou_id(event.PhysicalResourceId)

Children0 == ChildAccounts(org0, event.PhysicalResourceId)

\* C9, as stated: OU Delete of an OU with n child accounts, when no move
\* fails, issues exactly n move_account calls, one per child with the OU as
\* source and the root as destination, all before the single
\* delete_organizational_unit call.
C9_ChildrenMovedToRootBeforeDelete ==
    (OuDelete /\ Done /\ NoMoveFails)
    => /\ Cardinality(MoveIdx) = Cardinality(Children0)
       /\ { calls[i].a : i \in MoveIdx } = Children0
       /\ \A i \in MoveIdx :
             /\ calls[i].b = event.PhysicalResourceId
             /\ calls[i].c = org0.roots[1]
       /\ Cardinality(DeleteOuIdx) = 1
       /\ \A i \in MoveIdx : \A j \in DeleteOuIdx : i < j

\* the root listing and the child listing of OU Delete were both answered
ListingsOk ==
    /\ \E i \in ApiIdx("list_roots") : calls[i].res = "ok"
    /\ \E i \in ApiIdx("list_children") : calls[i].res = "ok"

\* C9, amended: every move_account call of OU Delete moves a child account
\* of the OU from the OU to the organization root and precedes every
\* delete_organizational_unit call; when the root listing and the child
\* listing succeed and no move fails, there is exactly one move per child,
\* in listing order, by the time the delete call is issued; the delete call
\* is attempted at most MAX_RETRY_ATTEMPTS times, and once when no remote
\* call fails.
C9_MovesToRootPrecedeDelete ==
    OuDelete =>
      /\ \A i \in MoveIdx :
            /\ calls[i].a \in Children0
            /\ calls[i].b = event.PhysicalResourceId
            /\ calls[i].c = org0.roots[1]
      /\ \A i \in MoveIdx : \A j \in DeleteOuIdx : i < j
      /\ Cardinality(DeleteOuIdx) <= MAX_RETRY_ATTEMPTS
      /\ (DeleteOuIdx # {} /\ ListingsOk /\ NoMoveFails)
            => MovedFrom(1) = ListOf(Children0, 1)
      /\ (Done /\ AllOkBefore(Len(calls) + 1))
            => /\ Cardinality(DeleteOuIdx) = 1
               /\ MovedFrom(1) = ListOf(Children0, 1)
               /\ OneOutcome("SUCCESS")

\* C9 witness: an OU with two child accounts was deleted after two moves.
C9_Witness ==
    /\ OuDelete
    /\ Done
    /\ Cardinality(Children0) = 2
    /\ AllOkBefore(Len(calls) + 1)
    /\ Cardinality(MoveIdx) = 2
    /\ Cardinality(DeleteOuIdx) = 1
    /\ MoveIdx # {} /\ (\A i \in MoveIdx : \A j \in DeleteOuIdx : i < j)
    /\ OneOutcome("SUCCESS")

\* OU Create reached its create call and every child id it lists is valid
OuCreate ==
    /\ fn = "create_organizational_unit"
    /\ ApiIdx("create_organizational_unit") # {}
    /\ \A i \in 1..Len(event.Children) : validate_account_id(event.Children[i])

CreatedOus == OuIds(org) \ OuIds(org0)

\* C10: OU Create with a resolvable parent and valid child account ids
\* issues move_account only for listed children, each from the child's
\* current parent to the newly created OU id; when no remote call fails, it
\* reports the new OU id and arn in a single success outcome and issues
\* exactly one move per child, in list order.
C10_CreateReportsOuAndMovesEachChild ==
    OuCreate =>
      /\ \A i \in MoveIdx :
            /\ calls[i].a \in Elems(event.Children)
            /\ calls[i].b = org0.parentOf[calls[i].a]
            /\ CreatedOus = {calls[i].c}
      /\ (Done /\ AllOkBefore(Len(calls) + 1)) =>
            /\ OneOutcome("SUCCESS")
            /\ CreatedOus = {responses[1].Data.Id}
            /\ responses[1].Data.Arn = Arn(responses[1].Data.Id)
            /\ responses[1].PhysicalResourceId = responses[1].Data.Id
            /\ MovedFrom(1) = event.Children
            /\ \A a \in Elems(event.Children) :
                  org.parentOf[a] = responses[1].Data.Id

\* C10 witness: an OU was created under the root alias with a child that
\* was moved into it from the root.
C10_Witness ==
    /\ OuCreate
    /\ Done
    /\ AllOkBefore(Len(calls) + 1)
    /\ event.ParentId = "root"
    /\ event.Children = <<A1>>
    /\ org0.parentOf[A1] = R1
    /\ Cardinality(MoveIdx) = 1
    /\ \A i \in MoveIdx : calls[i].b = R1 /\ calls[i].c = responses[1].Data.Id
    /\ OneOutcome("SUCCESS")

\* ------------------------------------------------------------------------
\* Children of OU Create and OU Update
\* ------------------------------------------------------------------------
OuChildFns == {"create_organizational_unit", "update_organizational_unit"}

\* the create or update call of the operation has succeeded
OuCallSucceeded ==
    /\ fn \in OuChildFns
    /\ \E i \in ApiIdx(fn) : calls[i].res = "ok"

\* the OU the children are reconciled into
TargetOu == IF fn = "update_organizational_unit"
            THEN event.PhysicalResourceId ELSE NEWOU

RECURSIVE ValidChildren(_)
ValidChildren(cs) ==
    IF cs = << >> THEN << >>
    ELSE (IF validate_account_id(Head(cs)) THEN <<Head(cs)>> ELSE << >>)
         \o ValidChildren(Tail(cs))

\* the accounts whose parent was looked up, in the order of the lookups
RECURSIVE LookedUp(_)
LookedUp(i) ==
    IF i > Len(calls) THEN << >>
    ELSE (IF calls[i].api = "list_parents" THEN <<calls[i].a>> ELSE << >>)
         \o LookedUp(i + 1)

\* C11: in OU Create and OU Update, once the create or update call has
\* succeeded, a failure while reconciling one child (its parent lookup or
\* its move, terminal or after exhausted retries) does not stop the
\* remaining children from being processed and does not make the outcome a
\* failure: the operation ends with a single success outcome, the parent of
\* every valid supplied child has been looked up, in list order, and every
\* child whose lookup succeeded and that is not already in the OU has had its
\* move issued.
C11_ChildFailureDoesNotAbort ==
    (OuCallSucceeded /\ Done)
    => /\ OneOutcome("SUCCESS")
       /\ LookedUp(1) = ValidChildren(event.Children)
       /\ \A i \in ApiIdx("list_parents") :
             (calls[i].res = "ok" /\ org0.parentOf[calls[i].a] # TargetOu)
             => /\ i + 1 <= Len(calls)
                /\ calls[i + 1].api = "move_account"
                /\ calls[i + 1].a = calls[i].a
                /\ calls[i + 1].c = TargetOu

\* C11 witness: an update whose first child's move failed for good and whose
\* second child was moved all the same, ending in success.
C11_Witness ==
    /\ fn = "update_organizational_unit"
    /\ Done
    /\ OneOutcome("SUCCESS")
    /\ event.Children = <<A1, A2>>
    /\ \E i \in MoveIdx, j \in MoveIdx :
          /\ i < j
          /\ calls[i].a = A1 /\ calls[i].res = "raised"
          /\ calls[j].a = A2 /\ calls[j].res = "ok"
    /\ org.parentOf[A2] = event.PhysicalResourceId
    /\ org.parentOf[A1] # event.PhysicalResourceId

\* the valid children of cs that the request found outside the OU
RECURSIVE OutsideOu(_)
OutsideOu(cs) ==
    IF cs = << >> THEN << >>
    ELSE (IF /\ validate_account_id(Head(cs))
             /\ Head(cs) \in Accounts(org0)
             /\ org0.parentOf[Head(cs)] # event.PhysicalResourceId
          THEN <<Head(cs)>> ELSE << >>)
         \o OutsideOu(Tail(cs))

\* C12: OU Update issues no move_account call for a supplied child whose
\* current parent already is the OU being updated: every move it issues takes
\* a supplied child from its current parent, which is not the OU, to the OU,
\* and no child is moved successfully twice; when no remote call fails, it
\* issues exactly one move for every other valid supplied child, in list
\* order, and all supplied valid children end up in the OU.
C12_UpdateMovesOnlyChildrenOutsideOu ==
    (fn = "update_organizational_unit" /\ OuCallSucceeded)
    => /\ \A i \in MoveIdx :
             /\ calls[i].a \in Elems(event.Children)
             /\ org0.parentOf[calls[i].a] # event.PhysicalResourceId
             /\ calls[i].b = org0.parentOf[calls[i].a]
             /\ calls[i].c = event.PhysicalResourceId
       /\ \A i \in MoveIdx : \A j \in MoveIdx :
             (calls[i].a = calls[j].a /\ calls[i].res = "ok" /\ calls[j].res = "ok")
             => i = j
       /\ (Done /\ AllOkBefore(Len(calls) + 1))
             => /\ MovedFrom(1) = OutsideOu(event.Children)
                /\ \A a \in Elems(ValidChildren(event.Children)) :
                      org.parentOf[a] = event.PhysicalResourceId

\* C12 witness: an update listing a child already in the OU and a child
\* under the root moved the second one only.
C12_Witness ==
    /\ fn = "update_organizational_unit"
    /\ Done
    /\ OneOutcome("SUCCESS")
    /\ AllOkBefore(Len(calls) + 1)
    /\ event.Children = <<A1, A2>>
    /\ org0.parentOf[A1] = event.PhysicalResourceId
    /\ org0.parentOf[A2] = R1
    /\ MovedFrom(1) = <<A2>>
    /\ LookedUp(1) = <<A1, A2>>

\* ------------------------------------------------------------------------
\* Policy documents
\* ------------------------------------------------------------------------
PolicyWriteFns ==
    { "create_service_control_policy", "update_service_control_policy" }

\* the request passes every check made before its document is validated
ReachesValidation ==
    /\ fn \in PolicyWriteFns
    /\ pc \notin {"idle", "start"}
    /\ event.PolicyName # ""
    /\ fn = "update_service_control_policy" => event.PhysicalResourceId = P1

\* the document's text can be read as a document
Readable(doc) == doc.form = "dict" \/ (doc.form = "str" /\ Parses(doc.text))

\* what the document says, whatever its form, layout and key order
Content(doc) ==
    LET d == IF doc.form = "str" THEN json_loads(doc.text) ELSE doc.struct
    IN  [top |-> d.top, keys |-> Elems(d.keys), kind |-> d.kind,
         items |-> d.items]

\* a top-level version and at least one statement, each Allow or Deny
WellFormed(doc) ==
    /\ Readable(doc)
    /\ LET content == Content(doc) IN
       /\ content.keys = {"Version", "Statement"}
       /\ content.kind = "list"
       /\ content.items # << >>
       /\ Elems(content.items) \subseteq {"Allow", "Deny"}

\* the text the operation hands to the remote call
SentText == retry.call.c

Validated ==
    /\ retry.call.api \in {"create_policy", "update_policy"}
    /\ \A i \in 1..Len(responses) : responses[i].Error # "ValueError"

\* C16 (as stated): a well-formed document is accepted and its serialized
\* form is canonical, that is, every form of the same document (structured or
\* pre-serialized, whatever its layout and key order) gives the same text.
C16_ValidDocumentGivesCanonicalForm ==
    (ReachesValidation /\ WellFormed(event.PolicyDocument))
    => /\ Validated
       /\ \A other \in Documents :
             (Readable(other)
              /\ Content(other) = Content(event.PolicyDocument))
             => validate_policy_document(other) = Ok(SentText)

\* C16 (amended): a well-formed document is accepted without raising; a
\* structured document is serialized compactly with its keys in the order
\* given, a pre-serialized one is handed on unchanged, and the text reads
\* back as the same document.
C16_ValidDocumentIsSerializedAsGiven ==
    (ReachesValidation /\ WellFormed(event.PolicyDocument))
    => /\ Validated
       /\ event.PolicyDocument.form = "str"
             => SentText = event.PolicyDocument.text
       /\ event.PolicyDocument.form = "dict"
             => /\ SentText = json_dumps(event.PolicyDocument.struct)
                /\ " " \notin Elems(SentText)
       /\ Parses(SentText)
       /\ Content(Str(SentText)) = Content(event.PolicyDocument)

C16_Witness ==
    /\ ReachesValidation
    /\ WellFormed(event.PolicyDocument)
    /\ event.PolicyDocument.form = "str"
    /\ " " \in Elems(event.PolicyDocument.text)
    /\ Len(Content(event.PolicyDocument).items) = MaxStatements
    /\ Done
    /\ OneOutcome("SUCCESS")

\* the document lacks version or statements, has no statement, or has a
\* statement whose effect is missing or not exactly Allow or Deny
Defective(doc) ==
    /\ Readable(doc)
    /\ LET content == Content(doc) IN
       /\ content.top = "object"
       /\ \/ "Version" \notin content.keys
          \/ "Statement" \notin content.keys
          \/ content.kind = "list" /\ content.items = << >>
          \/ \E i \in 1..Len(content.items) :
                content.items[i] \in {"none", "allow"}

\* C17: a document that lacks version, lacks statements, has an empty
\* statement list or holds a statement whose effect is missing or not exactly
\* Allow or Deny is refused with a validation error, and no call is made.
C17_DefectiveDocumentIsRefused ==
    (ReachesValidation /\ Defective(event.PolicyDocument))
    => /\ validate_policy_document(event.PolicyDocument) = Err("ValueError")
       /\ Done
       /\ OneOutcome("FAILED")
       /\ responses[1].Error = "ValueError"
       /\ calls = << >>
       /\ retry = NoRetry

C17_Witness ==
    /\ ReachesValidation
    /\ ~document_missing(event.PolicyDocument)
    /\ Defective(event.PolicyDocument)
    /\ Len(Content(event.PolicyDocument).items) = MaxStatements
    /\ Content(event.PolicyDocument).items[MaxStatements] = "allow"
    /\ Content(event.PolicyDocument).items[1] = "Allow"
    /\ Done

\* ------------------------------------------------------------------------
\* Attachment Update
\* ------------------------------------------------------------------------
AttachmentUpdate == fn = "update_service_control_policy_attachment"

\* both targets of the update are resolved
BothResolved == AttachmentUpdate /\ loc.old_target # "" /\ loc.target # ""

MutatingApis ==
    { "create_policy", "update_policy", "delete_policy", "attach_policy",
      "detach_policy", "move_account", "create_organizational_unit",
      "update_organizational_unit", "delete_organizational_unit" }

MutatingIdx == { i \in 1..Len(calls) : calls[i].api \in MutatingApis }

\* the id is one of the forms a target may be named by
TargetIdForm(id) ==
    \/ id \in {"root", "ROOT", "Root"}
    \/ ROOT_ID_PATTERN(id)
    \/ ACCOUNT_ID_PATTERN(id)
    \/ OU_ID_PATTERN(id)

\* a required field of the Attachment Update is missing or an id malformed
InvalidAttachmentUpdate ==
    \/ event.PhysicalResourceId = ""
    \/ event.PolicyId = "" \/ event.OldPolicyId = ""
    \/ event.TargetId = "" \/ event.OldTargetId = ""
    \/ ~POLICY_ID_PATTERN(event.PolicyId)
    \/ ~POLICY_ID_PATTERN(event.OldPolicyId)
    \/ ~TargetIdForm(event.TargetId)
    \/ ~TargetIdForm(event.OldTargetId)

\* C18: a request with a missing required field or a malformed policy or
\* target id ends in a failure outcome, with no state-changing remote call
\* issued and nothing handed to the Retry Engine.
C18_ValidationFailureChangesNothing ==
    (AttachmentUpdate /\ pc # "start" /\ InvalidAttachmentUpdate)
    => /\ MutatingIdx = {}
       /\ retry = NoRetry
       /\ Done => OneOutcome("FAILED")

\* the ordering alone: every detach call precedes every attach call, and an
\* attach is issued only after the detach, if any, succeeded
DetachCompletesBeforeAttach ==
    \A j \in ApiIdx("attach_policy") :
       /\ \A i \in ApiIdx("detach_policy") : i < j
       /\ ApiIdx("detach_policy") # {}
          => \E i \in ApiIdx("detach_policy") : calls[i].res = "ok"

\* C19: the detach of the old relation, when it is attached, completes
\* before the attach of the new relation is issued; there is no detach when
\* the old relation is not attached and no attach when the new relation is
\* already attached.
C19_DetachOldThenAttachNew ==
    BothResolved
    => /\ DetachCompletesBeforeAttach
       /\ OldRelation \notin org0.attached => ApiIdx("detach_policy") = {}
       /\ (NewRelation \in org0.attached /\ NewRelation # OldRelation)
             => ApiIdx("attach_policy") = {}

\* the update stopped after its detach succeeded and before any attach
CrashedBetween ==
    /\ AttachmentUpdate
    /\ pc = "crashed"
    /\ \E i \in ApiIdx("detach_policy") : calls[i].res = "ok"
    /\ ApiIdx("attach_policy") = {}

\* C20 (as stated): a crash between the two calls leaves the target attached
\* to both the old and the new policy.
C20_CrashLeavesBothAttached ==
    CrashedBetween
    => /\ OldRelation \in org.attached
       /\ NewRelation \in org.attached

\* C20 (amended): a crash between the two calls leaves the old relation
\* detached and the new relation as it was before the update, so a target
\* whose new relation was not attached before is attached to neither.
C20_CrashLeavesOldDetached ==
    CrashedBetween
    => /\ OldRelation \in org0.attached
       /\ OldRelation \notin org.attached
       /\ org.attached = org0.attached \ {OldRelation}
       /\ NewRelation \in org.attached
             <=> (NewRelation \in org0.attached /\ NewRelation # OldRelation)

C20_Witness ==
    /\ CrashedBetween
    /\ retry.call = NoCall \/ retry.status # "running"
    /\ NewRelation \notin org.attached
    /\ OldRelation \notin org.attached
    /\ event.PolicyId = P2

\* ------------------------------------------------------------------------
\* The alias "root"
\* ------------------------------------------------------------------------
\* the request names its target (Attachment Create) or its parent (OU
\* Create) by a spelling of the alias, and the resolver has run
ResolvedAlias ==
    \/ /\ fn = "create_service_control_policy_attachment"
       /\ event.TargetId \in {"root", "ROOT"}
       /\ pc \notin {"idle", "start", "validate_target_id"}
    \/ /\ fn = "create_organizational_unit"
       /\ event.ParentId \in {"root", "ROOT"}
       /\ pc \notin {"idle", "start"}

\* the resolver returned id: it is the target of the attachment, or the
\* parent the new OU is created under
ResolvedTo(id) ==
    IF fn = "create_organizational_unit"
    THEN /\ retry.call.api = "create_organizational_unit" => retry.call.a = id
         /\ \A i \in ApiIdx("create_organizational_unit") : calls[i].a = id
         /\ \/ retry.call.api = "create_organizational_unit"
            \/ ApiIdx("create_organizational_unit") # {}
    ELSE loc.target = id

\* the resolver raised: the request failed on it and nothing else was called
ResolutionError ==
    /\ Done
    /\ OneOutcome("FAILED")
    /\ responses[1].Error = "ValueError"
    /\ Len(calls) = 1

\* C15: whichever case the alias is spelt in, the resolver lists the roots
\* and returns the id of the first root listed, or raises when the list is
\* empty; the result depends on the root list only.
C15_RootAliasIsCaseInsensitive ==
    ResolvedAlias
    => /\ Len(calls) >= 1
       /\ calls[1].api = "list_roots"
       /\ (calls[1].res = "ok" /\ org0.roots # << >>)
             => ResolvedTo(org0.roots[1]) /\ ~ResolutionError
       /\ (calls[1].res = "ok" /\ org0.roots = << >>) => ResolutionError

C15_Witness ==
    /\ ResolvedAlias
    /\ event.TargetId = "ROOT"
    /\ org0.roots = <<R2, R1>>
    /\ ResolvedTo(R2)
    /\ Done
    /\ OneOutcome("SUCCESS")

\* ------------------------------------------------------------------------
\* The outcome and the end of the operation
\* ------------------------------------------------------------------------
\* C14: once the outcome notification is sent, the operation issues no
\* further remote call.
C14_NoCallAfterOutcome ==
    [][responses # << >> => calls' = calls]_vars

\* ------------------------------------------------------------------------
\* Requests that are sent twice
\* ------------------------------------------------------------------------
TransientKinds == Faults \cup ReadFaults

\* the request was handled twice and the second handling met no transient
\* failure: every error it saw is the remote's answer to the call
HandledTwice ==
    /\ Done
    /\ Len(responses) = 2
    /\ \A i \in 1..Len(calls) : calls[i].res \notin TransientKinds \cup {"retry"}
    /\ responses[2].Error \notin TransientKinds

\* C13: a request sent again after it completed successfully ends in a
\* success outcome again.
C13_ResendEndsInSuccess ==
    HandledTwice => responses[2].Status = "SUCCESS"

\* ------------------------------------------------------------------------
\* Attachment Delete of a relation that is absent
\* ------------------------------------------------------------------------
AttachmentDelete == fn = "delete_service_control_policy_attachment"

\* the target is resolved, the attached check has run, and the relation of
\* the request was not attached when the request arrived
AbsentRelationChecked ==
    /\ AttachmentDelete
    /\ loc.target # ""
    /\ pc # "check_attached"
    /\ <<event.PolicyId, loc.target>> \notin org0.attached

\* C21: Attachment Delete of a (policy, resolved target) relation that does
\* not exist remotely ends in a success outcome, with no detach call and no
\* attach of the default policy.
C21_AbsentRelationDeleteIsNoOp ==
    AbsentRelationChecked
    => /\ Done
       /\ OneOutcome("SUCCESS")
       /\ responses[1].PhysicalResourceId = event.PhysicalResourceId
       /\ ApiIdx("detach_policy") = {}
       /\ ApiIdx("attach_policy") = {}
       /\ retry = NoRetry
       /\ org = org0

C21_Witness ==
    /\ AbsentRelationChecked
    /\ event.TargetId = "root"
    /\ event.PolicyId \in org0.policies
    /\ calls[Len(calls)].api = "list_targets_for_policy"
    /\ calls[Len(calls)].res = "ok"
    /\ Done

\* ------------------------------------------------------------------------
\* The physical identifier in the outcome
\* ------------------------------------------------------------------------
UpdateDeleteFns ==
    { "update_service_control_policy", "delete_service_control_policy",
      "update_service_control_policy_attachment",
      "delete_service_control_policy_attachment",
      "update_organizational_unit", "delete_organizational_unit" }

\* C22: an update or delete whose request names a physical identifier sends
\* that identifier, unchanged, with every outcome, success or failure.
C22_OutcomeKeepsPhysicalId ==
    (fn \in UpdateDeleteFns /\ event.PhysicalResourceId # "")
    => /\ \A i \in 1..Len(responses) :
             responses[i].PhysicalResourceId = event.PhysicalResourceId
       /\ Done => Len(responses) = 1

C22_Witness ==
    /\ fn \in UpdateDeleteFns
    /\ event.PhysicalResourceId = Bogus
    /\ Done
    /\ OneOutcome("FAILED")
    /\ responses[1].PhysicalResourceId = Bogus

\* the identifier begins with "Failed/"
HasSentinelPrefix(id) ==
    /\ Len(Chars[id]) >= Len(Chars["Failed/"])
    /\ SubSeq(Chars[id], 1, Len(Chars["Failed/"])) = Chars["Failed/"]

\* C23: the failure outcome of a create carries the "never created"
\* sentinel, an identifier that begins with "Failed/".
C23_FailedCreateCarriesSentinel ==
    (fn \in CreateFns /\ Done /\ OneOutcome("FAILED"))
    => HasSentinelPrefix(responses[1].PhysicalResourceId)

\* ------------------------------------------------------------------------
\* The dispatcher
\* ------------------------------------------------------------------------
\* the manager operation of every supported pair
MappedOperations ==
    { <<"Custom::ServiceControlPolicy", "Create", "create_service_control_policy">>,
      <<"Custom::ServiceControlPolicy", "Update", "update_service_control_policy">>,
      <<"Custom::ServiceControlPolicy", "Delete", "delete_service_control_policy">>,
      <<"Custom::ServiceControlPolicyAttachment", "Create",
        "create_service_control_policy_attachment">>,
      <<"Custom::ServiceControlPolicyAttachment", "Update",
        "update_service_control_policy_attachment">>,
      <<"Custom::ServiceControlPolicyAttachment", "Delete",
        "delete_service_control_policy_attachment">>,
      <<"Custom::OrganizationalUnit", "Create", "create_organizational_unit">>,
      <<"Custom::OrganizationalUnit", "Update", "update_organizational_unit">>,
      <<"Custom::OrganizationalUnit", "Delete", "delete_organizational_unit">> }

SupportedRequest ==
    \E m \in MappedOperations :
        m[1] = event.ResourceType /\ m[2] = event.RequestType

\* in every state: a supported request is handed to the operation mapped to
\* its pair; any other request is handed to none and gets a FAILED outcome
DispatchedAsMapped ==
    /\ (SupportedRequest /\ pc # "idle")
          => <<event.ResourceType, event.RequestType, fn>> \in MappedOperations
    /\ ~SupportedRequest
          => /\ fn = ""
             /\ pc \in {"idle", "done"}
             /\ Done => (OneOutcome("FAILED") /\ calls = << >>)
    /\ Done => Len(responses) = 1

\* C24: the dispatcher invokes exactly one manager operation per supported
\* request, the one mapped to its pair, and never a second one; a request
\* whose ResourceType or RequestType is missing or unsupported invokes none
\* and gets a FAILED outcome.
C24_ExactlyOneMappedOperation ==
    /\ []DispatchedAsMapped
    /\ [][fn # "" => fn' = fn]_vars

C24_Witness ==
    /\ SupportedRequest
    /\ fn = "update_organizational_unit"
    /\ Done
    /\ Len(responses) = 1

\* ------------------------------------------------------------------------
\* The sleeps of the Retry Engine
\* ------------------------------------------------------------------------
\* C25: an engine that has made k attempts has slept k-1 times, once before
\* every attempt after the first, never before the first nor after the last,
\* at most 9 times; each sleep lasts 5 to 30 seconds, and 5 to 20 seconds in
\* the engine that moves accounts.
C25_OneSleepBeforeEveryRetry ==
    /\ retry.ncalls = 0 => (retry.sleeps = 0 /\ retry.delay = 0)
    /\ retry.ncalls > 0 => retry.sleeps = retry.ncalls - 1
    /\ retry.sleeps <= 9
    /\ retry.ncalls = 1 => retry.delay = 0
    /\ retry.ncalls > 1
          => /\ retry.delay \in 5..30
             /\ retry.engine = "move_account_with_retry"
                   => retry.delay \in 5..20

C25_Witness ==
    /\ retry.engine = "move_account_with_retry"
    /\ retry.status = "raised"
    /\ retry.ncalls = 10
    /\ retry.sleeps = 9
    /\ retry.delay = 20

\* C26: the engine that moves accounts gives up on a failure only when the
\* failure is of none of the five transient kinds or was met at the tenth
\* attempt; a transient failure met earlier is retried.
C26_MoveRetriesTheFiveKinds ==
    (/\ retry.engine = "move_account_with_retry"
     /\ retry.status = "raised")
        => \/ retry.last_exception \notin
                 { "ConcurrentModificationException", "PolicyInUseException",
                   "ThrottlingException", "ServiceException",
                   "TooManyRequestsException" }
           \/ retry.ncalls = 10

\* ------------------------------------------------------------------------
\* OU Delete under failures
\* ------------------------------------------------------------------------
\* C27: an OU Delete with a well-formed OU id always attempts the
\* delete_organizational_unit call, whatever failed while the roots and the
\* children were listed and the children moved, and its outcome is a success
\* exactly when a delete_organizational_unit call succeeded.
C27_DeleteOuIsAlwaysAttempted ==
    (OuDelete /\ Done)
        => /\ DeleteOuIdx # {}
           /\ Len(responses) = 1
           /\ OneOutcome("SUCCESS")
                 <=> (\E i \in DeleteOuIdx : calls[i].res = "ok")
           /\ OneOutcome("FAILED")
                 <=> (\A i \in DeleteOuIdx : calls[i].res # "ok")

\* C27 witness: the children could not be listed, and the delete call was
\* issued all the same and succeeded on an OU that has no child.
C27_Witness ==
    /\ OuDelete
    /\ Done
    /\ \E i \in ApiIdx("list_children") : calls[i].res # "ok"
    /\ \E i \in DeleteOuIdx : calls[i].res = "ok"
    /\ OneOutcome("SUCCESS")

\* a child could not be moved, and the delete call was issued all the same
\* and refused by the remote, which still holds the child under the OU
DeleteAfterFailedMove ==
    /\ OuDelete
    /\ Done
    /\ \E i \in MoveIdx : calls[i].res = "raised"
    /\ \E i \in DeleteOuIdx : calls[i].res = "raised"
    /\ OneOutcome("FAILED")

\* C28: once the roots and the children of the OU are listed, every child
\* account of the OU has had a move_account attempt by the time the delete
\* call is issued, whether or not the move of an earlier child failed.
C28_EveryChildGetsAMoveAttempt ==
    (OuDelete /\ ListingsOk /\ DeleteOuIdx # {})
        => { calls[i].a : i \in MoveIdx } = Children0

\* ------------------------------------------------------------------------
\* Best-effort steps of Attachment Delete and Policy Delete
\* ------------------------------------------------------------------------
\* the second listing of the policy's targets reads the attachment count
CountReadIdx ==
    { i \in PolicyListingIdx :
        Cardinality({ j \in PolicyListingIdx : j < i }) = 1 }

\* the attach of the default policy failed, terminally or on every attempt,
\* or the attachment count could not be read
DefaultAttachFailed ==
    \/ \E i \in DefaultAttachIdx : calls[i].res = "raised"
    \/ \E i \in CountReadIdx : calls[i].res # "ok"

\* C29: when the attach of the default policy fails or the attachment count
\* cannot be read, Attachment Delete still issues the detach call, and its
\* outcome is a success exactly when the detach call succeeded.
C29_DefaultAttachIsBestEffort ==
    (AttachmentDelete /\ Done /\ DefaultAttachFailed)
        => /\ DetachIdx # {}
           /\ Len(responses) = 1
           /\ OneOutcome("SUCCESS")
                 <=> (\E i \in DetachIdx : calls[i].res = "ok")
           /\ \A i \in DefaultAttachIdx : \A j \in DetachIdx : i < j

\* C29 witness: the attach of the default policy was given up after ten
\* attempts, and the detach succeeded and the request with it.
C29_Witness ==
    /\ AttachmentDelete
    /\ Done
    /\ Cardinality(DefaultAttachIdx) = MAX_RETRY_ATTEMPTS
    /\ \E i \in DefaultAttachIdx : calls[i].res = "raised"
    /\ \E i \in DetachIdx : calls[i].res = "ok"
    /\ OneOutcome("SUCCESS")

\* the attachment count could not be read and the detach was refused
DetachRefusedAfterFailedCount ==
    /\ AttachmentDelete
    /\ Done
    /\ \E i \in CountReadIdx : calls[i].res # "ok"
    /\ \E i \in DetachIdx : calls[i].res = "raised"
    /\ OneOutcome("FAILED")

PolicyDelete == fn = "delete_service_control_policy"

DeletePolicyIdx == CallIdx("delete_policy", event.PhysicalResourceId, "")

\* the inspection of Policy Delete found attachments, or failed with an
\* error other than PolicyNotFoundException
InspectionFinding ==
    /\ Len(calls) >= 1
    /\ calls[1].api = "list_targets_for_policy"
    /\ \/ /\ calls[1].res = "ok"
          /\ TargetsOf(org0, event.PhysicalResourceId) # {}
       \/ calls[1].res \notin {"ok", "PolicyNotFoundException"}

\* C30: when the policy still has attachments, or its inspection fails with
\* an error other than PolicyNotFoundException, Policy Delete still issues
\* delete_policy through the Retry Engine; when the remote rejects the
\* deletion the outcome is a failure that carries the policy id.
C30_InspectionNeverBlocksDeletion ==
    (PolicyDelete /\ InspectionFinding)
        => /\ retry.engine = "retry_with_backoff"
           /\ retry.call = Call("delete_policy", event.PhysicalResourceId, "", "")
           /\ Done =>
                /\ DeletePolicyIdx # {}
                /\ Cardinality(DeletePolicyIdx) = retry.ncalls
                /\ Len(responses) = 1
                /\ (\A i \in DeletePolicyIdx : calls[i].res # "ok")
                      => /\ OneOutcome("FAILED")
                         /\ responses[1].PhysicalResourceId
                               = event.PhysicalResourceId
                /\ (\E i \in DeletePolicyIdx : calls[i].res = "ok")
                      => OneOutcome("SUCCESS")

\* C30 witness: the policy was attached, delete_policy was refused on all
\* ten attempts, and the failure outcome carries the policy id.
C30_Witness ==
    /\ PolicyDelete
    /\ Done
    /\ Len(calls) >= 1
    /\ calls[1].res = "ok"
    /\ TargetsOf(org0, event.PhysicalResourceId) # {}
    /\ Cardinality(DeletePolicyIdx) = MAX_RETRY_ATTEMPTS
    /\ OneOutcome("FAILED")
    /\ responses[1].PhysicalResourceId = event.PhysicalResourceId
    /\ event.PhysicalResourceId # ""

\* the inspection failed and the policy was deleted all the same
DeletedAfterFailedInspection ==
    /\ PolicyDelete
    /\ Done
    /\ Len(calls) >= 2
    /\ calls[1].res \notin {"ok", "PolicyNotFoundException"}
    /\ \E i \in DeletePolicyIdx : calls[i].res = "ok"
    /\ OneOutcome("SUCCESS")

\* ------------------------------------------------------------------------
\* The shape of supplied child ids
\* ------------------------------------------------------------------------
OuCreateOrUpdate ==
    fn \in {"create_organizational_unit", "update_organizational_unit"}

\* exactly twelve characters, every one a digit
TwelveDigits(s) ==
    /\ Len(Chars[s]) = 12
    /\ \A i \in 1..12 : Chars[s][i] \in Digits

\* the remote calls made for child id: parent lookups and moves
ChildCallIdx(id) ==
    { i \in ApiIdx("list_parents") \cup MoveIdx : calls[i].a = id }

\* C31: OU Create and OU Update make no remote call, neither a parent lookup
\* nor a move, for a supplied child whose id is not exactly twelve digits.
C31_MisshapenChildCausesNoCall ==
    OuCreateOrUpdate
        => \A k \in 1..Len(event.Children) :
              ~TwelveDigits(event.Children[k])
                 => ChildCallIdx(event.Children[k]) = {}

\* a child id refused by validate_account_id was skipped without a call
RefusedChildSkipped ==
    OuCreateOrUpdate
        => \A k \in 1..Len(event.Children) :
              ~validate_account_id(event.Children[k])
                 => ChildCallIdx(event.Children[k]) = {}

NothingSentWithoutUrl ==
    /\ Done
    /\ event.ResponseURL = ""
    /\ Len(responses) = 1
    /\ responses[1].Put = "KeyError"

\* ------------------------------------------------------------------------
\* What a reported success says of the remote state
\* ------------------------------------------------------------------------
\* C33: an Attachment Delete that resolved its target reports success only
\* when the (policy, target) relation is absent from the remote system at
\* that time, whatever the listings of the policy's targets answered.
C33_SuccessMeansDetached ==
    (AttachmentDelete /\ Done /\ loc.target # "" /\ OneOutcome("SUCCESS"))
        => <<event.PolicyId, loc.target>> \notin org.attached

\* C34: after an Attachment Update that reports success the new policy is
\* attached to the new target and, when the old relation differs from the
\* new one, the old policy is not attached to the old target, whatever the
\* listings behind the attached checks answered.
C34_SuccessMeansReplaced ==
    (AttachmentUpdate /\ Done /\ OneOutcome("SUCCESS"))
        => /\ NewRelation \in org.attached
           /\ OldRelation # NewRelation => OldRelation \notin org.attached

\* ------------------------------------------------------------------------
\* Concurrent invocations
\* ------------------------------------------------------------------------
\* two Attachment Creates of one existing policy and one resolved target
\* have both ended
BothCreatesDone ==
    /\ fn = "create_service_control_policy_attachment"
    /\ peer.fn = "create_service_control_policy_attachment"
    /\ pc = "done"
    /\ peer.pc = "done"
    /\ event.PolicyId \in org0.policies
    /\ loc.target # ""
    /\ peer.loc.target = loc.target

\* C35: when two Attachment Creates of the same (policy, target) pair run
\* interleaved against one remote, which refuses a duplicate attach with
\* DuplicatePolicyAttachmentException, both end in a success outcome and the
\* relation is attached, by at most one successful attach call.
C35_ConcurrentCreatesBothSucceed ==
    BothCreatesDone
        => /\ Len(responses) = 2
           /\ \A i \in 1..Len(responses) : responses[i].Status = "SUCCESS"
           /\ <<event.PolicyId, loc.target>> \in org.attached
           /\ Cardinality({ i \in ApiIdx("attach_policy") :
                               calls[i].res = "ok" }) <= 1

\* ------------------------------------------------------------------------
\* The last policy of a target
\* ------------------------------------------------------------------------
\* this step of an Attachment Update issues a detach_policy call
DetachIssued ==
    /\ AttachmentUpdate
    /\ Len(calls') = Len(calls) + 1
    /\ calls'[Len(calls')].api = "detach_policy"

\* C36: Attachment Update issues a detach only for a policy that is not the
\* only policy attached to its target when the call is issued: another
\* policy, the default one or the new one, is attached there before.
C36_NoDetachOfSolePolicy ==
    [][DetachIssued
         => PoliciesOn(org, calls'[Len(calls')].b) # {calls'[Len(calls')].a}]_vars

\* the remote never holds a target that lost its last policy
NoTargetLeftBare ==
    \A t \in {R1, A1} : PoliciesOn(org0, t) # {} => PoliciesOn(org, t) # {}

\* ------------------------------------------------------------------------
\* The order of OU Create
\* ------------------------------------------------------------------------
IsOuCreate == fn = "create_organizational_unit"

CreateOuIdx == ApiIdx("create_organizational_unit")

\* the calls made for the supplied children: parent lookups and moves
ChildIdx == ApiIdx("list_parents") \cup MoveIdx

\* C37: in OU Create every create_organizational_unit call precedes every
\* parent lookup and every move of a child, and these follow a create call
\* that succeeded; when the parent is not resolved or the create call fails,
\* no move_account call is issued and the outcome is a failure.
C37_CreatePrecedesChildCalls ==
    IsOuCreate
        => /\ \A i \in ChildIdx :
                 /\ \A j \in CreateOuIdx : j < i
                 /\ \E j \in CreateOuIdx : calls[j].res = "ok"
           /\ (Done /\ \A j \in CreateOuIdx : calls[j].res # "ok")
                 => /\ ChildIdx = {}
                    /\ OneOutcome("FAILED")

\* C37 witness: an OU Create with a child gave up its create call after a
\* retry and ended in a failure with no call for the child.
C37_Witness ==
    /\ IsOuCreate
    /\ Done
    /\ event.Children # << >>
    /\ Cardinality(CreateOuIdx) >= 2
    /\ \A j \in CreateOuIdx : calls[j].res # "ok"
    /\ ChildIdx = {}
    /\ OneOutcome("FAILED")

\* the parent of an OU Create with a child was not resolved: no create call,
\* no call for the child, a failure
UnresolvedParentFails ==
    /\ IsOuCreate
    /\ Done
    /\ event.Children # << >>
    /\ calls # << >>
    /\ CreateOuIdx = {}
    /\ OneOutcome("FAILED")

\* ------------------------------------------------------------------------
\* Termination within a bounded number of remote calls
\* ------------------------------------------------------------------------
\* the child accounts the request supplies, or those the OU Delete lists
SuppliedOrListed ==
    IF event.RequestType = "Delete"
    THEN Cardinality(ChildAccounts(org0, event.PhysicalResourceId))
    ELSE Len(event.Children)

\* the calls handed to an engine that the engine is done with
FinishedRuns ==
    { i \in MutatingIdx : calls[i].res \in {"ok", "raised"} }

\* at most 10 attempts for one retried call; the retried calls are at most
\* two more than the children, and the calls outside the engines at most
\* four more than the children
BoundedCalls ==
    /\ retry.ncalls <= 10
    /\ Cardinality(FinishedRuns) <= SuppliedOrListed + 2
    /\ Cardinality(MutatingIdx) <= 10 * (SuppliedOrListed + 2)
    /\ Len(calls) - Cardinality(MutatingIdx) <= SuppliedOrListed + 4

\* C38: every manager operation ends and has sent its outcome, whatever the
\* remote answers, within a bounded number of remote calls: each retried
\* call is attempted at most 10 times and the number of retried calls is at
\* most the number of supplied or listed child accounts plus a constant.
C38_TerminatesWithinBoundedCalls ==
    /\ <>(Done /\ Len(responses) = 1 /\ responses[1].Put = "sent")
    /\ []BoundedCalls

\* C38 witness: an OU Create with two children ended after the moves of both
\* were given up at the tenth attempt.
C38_Witness ==
    /\ Done
    /\ Len(responses) = 1
    /\ fn = "create_organizational_unit"
    /\ Len(event.Children) = 2
    /\ Cardinality(MoveIdx) = 2 * MAX_RETRY_ATTEMPTS
    /\ Cardinality(FinishedRuns) = 3

\* ------------------------------------------------------------------------
\* The reads of the target resolution
\* ------------------------------------------------------------------------
\* requests that resolve one target: Attachment Create and Delete resolve the
\* target, OU Create the parent
ResolvesOneTarget ==
    \/ event.ResourceType = "Custom::ServiceControlPolicyAttachment"
    \/ IsOuCreate

\* the reads the resolution makes
ResolverIdx ==
    ApiIdx("list_roots") \cup ApiIdx("describe_account")
    \cup ApiIdx("describe_organizational_unit")

\* C39: the resolution of a target makes at most one read (list roots,
\* describe account or describe OU), not through a retry engine; when that
\* read fails, by throttling as by any other error, or finds no target, no
\* other remote call follows and the outcome is a FAILED "Validation error".
C39_ResolutionReadsOnceAndFailsAsValidation ==
    ResolvesOneTarget =>
        /\ Cardinality(ResolverIdx) <= 1
        /\ \A i \in ResolverIdx :
              /\ i = 1
              /\ calls[i].res \notin {"retry", "raised"}
              /\ (calls[i].res # "ok" /\ pc # "validate_target_id"
                    /\ fn # "") => Len(calls) = 1
              /\ (Done /\ Len(calls) = 1) =>
                    /\ Len(responses) = 1
                    /\ responses[1].Status = "FAILED"
                    /\ responses[1].Reason = "Validation error"
                    /\ responses[1].Error = "ValueError"

\* C39 witness: the describe call of an account target was throttled, nothing
\* was called after it and the request failed as a validation error.
C39_Witness ==
    /\ Done
    /\ Len(calls) = 1
    /\ calls[1].api = "describe_account"
    /\ calls[1].res = "ThrottlingException"
    /\ responses[1].Status = "FAILED"
    /\ responses[1].Reason = "Validation error"

\* the same for a root id that the listing, which answered, does not hold
AbsentRootFailsAsValidation ==
    /\ Done
    /\ Len(calls) = 1
    /\ calls[1].api = "list_roots"
    /\ calls[1].res = "ok"
    /\ responses[1].Reason = "Validation error"

====
